---- MODULE Spec2Model ----
(***************************************************************************)
(* Model of the two log passes of the Apex test runner:                    *)
(*   - LogAnalyzerHandler.analyzeApexLog   (src/src/logAnalyzerHandler.ts) *)
(*   - ApexTestRunner.filterLogsForMethod  (src/src/extension.ts)          *)
(*                                                                         *)
(* Text is modelled as a sequence of lexemes (tokens).  A token stands for *)
(* a run of characters that the regular expressions and the split/includes *)
(* calls of the source treat as a unit: the field delimiter, white space,  *)
(* a decimal number, a clock time stamp, a word, "[n]", "name: u of t" ... *)
(* A line is a token sequence without newline tokens; a log is the         *)
(* sequence of its lines, i.e. the value of log.split('\n').               *)
(*                                                                         *)
(* Indices (i, lastDebugLineIndex, newIndex) are 0-based as in the source; *)
(* At(seq, k) reads the element the source calls seq[k].                   *)
(***************************************************************************)
EXTENDS Integers, Sequences, FiniteSets, TLC

\* ------------------------------------------------------------------------
\* Bounds of the model
\* ------------------------------------------------------------------------
MaxLines == 3
MaxCalls == 2
MaxLimitLines == 3
MaxBlocks == 3
MaxDispatchLines == 3
MaxRuleLines == 2
MaxDebugLines == 4
MaxStackLines == 31
MaxCoverageLines == 3
MaxHeapLines == 3

\* ------------------------------------------------------------------------
\* Numbers.  Time stamps are kept in units of 1/10 ms so that Math.round has
\* something to round; NaN is the value parseFloat gives for text that does
\* not start with a number, Infinity the value of a division by zero.
\* ------------------------------------------------------------------------
UnitsPerMs == 10
NaN == -1000000000
Infinity == 1000000000

IsNaN(x) == x = NaN

\* a - b on IEEE doubles (finite operands or NaN)
Minus(a, b) == IF IsNaN(a) \/ IsNaN(b) THEN NaN ELSE a - b

RoundMs_trunc(d) == IF IsNaN(d) THEN NaN ELSE d \div UnitsPerMs

\* Math.round(d * 1000) for a difference d of two time stamps given in units:
\* Math.round rounds half up (floor(x + 0.5)); NaN stays NaN.
RoundMs(d) == IF IsNaN(d) THEN NaN ELSE (2 * d + UnitsPerMs) \div (2 * UnitsPerMs)

\* Math.round((used / total) * 100); total = 0 gives Infinity (used > 0) or NaN
RoundPercent(used, total) ==
    IF total = 0 THEN (IF used = 0 THEN NaN ELSE Infinity)
    ELSE (200 * used + total) \div (2 * total)

\* ------------------------------------------------------------------------
\* Tokens
\* ------------------------------------------------------------------------
Pipe == [k |-> "pipe"]                     \* the field delimiter '|'
Sp == [k |-> "sp"]                         \* a run of white space
NL == [k |-> "nl"]                         \* a real newline character
EscN == [k |-> "escn"]                     \* the two characters backslash, n
Num(n) == [k |-> "num", n |-> n]           \* decimal seconds, n in units
Clock(h) == [k |-> "clock", n |-> h]       \* "hh:mm:ss.fff (nanos)", h = hh
Hms(h) == [k |-> "hms", n |-> h]           \* "hh:mm:ss" and nothing more
Word(s) == [k |-> "word", s |-> s]         \* any other run of characters
LineRef(n) == [k |-> "lineref", n |-> n]   \* "[n]"
LimitTok(name, used, total) ==             \* "name: used of total"
    [k |-> "limit", s |-> name, n |-> used, m |-> total]
Bytes(n) == [k |-> "bytes", n |-> n]       \* "Bytes:n"
Duration(n) == [k |-> "duration", n |-> n] \* "Duration=n"
LineCol(n, c) ==                           \* "line n, column c"
    [k |-> "linecol", n |-> n, m |-> c]
LineOnly(n) == [k |-> "lineonly", n |-> n] \* "line n"
Percent(n) == [k |-> "percent", n |-> n]   \* "n%"
Ratio(n, m) == [k |-> "ratio", n |-> n, m |-> m]   \* "n/m"
NotCovered(ns) == [k |-> "notcovered", ns |-> ns]  \* "Lines not covered: a, b"
IntTok(n) == [k |-> "int", n |-> n]        \* a number rendered into text

At(seq, k) == seq[k + 1]

\* Array.prototype.slice(from)
Slice(seq, from) == SubSeq(seq, from + 1, Len(seq))

\* String.prototype.trim: white space is removed at both ends only
RECURSIVE TrimLeft(_)
TrimLeft(t) ==
    IF t # <<>> /\ Head(t).k \in {"sp", "nl"} THEN TrimLeft(Tail(t)) ELSE t

RECURSIVE TrimRight(_)
TrimRight(t) ==
    IF t # <<>> /\ t[Len(t)].k \in {"sp", "nl"}
    THEN TrimRight(SubSeq(t, 1, Len(t) - 1))
    ELSE t

Trim(t) == TrimRight(TrimLeft(t))

\* String.prototype.split('|'): always at least one part
RECURSIVE SplitFrom(_, _)
SplitFrom(t, acc) ==
    IF t = <<>> THEN <<acc>>
    ELSE IF Head(t) = Pipe THEN <<acc>> \o SplitFrom(Tail(t), <<>>)
    ELSE SplitFrom(Tail(t), Append(acc, Head(t)))

SplitPipe(t) == SplitFrom(t, <<>>)

\* String.prototype.split('\n')[0]: the text before the first newline
RECURSIVE FirstLine(_)
FirstLine(t) ==
    IF t = <<>> \/ Head(t) = NL THEN <<>> ELSE <<Head(t)>> \o FirstLine(Tail(t))

\* Array.prototype.join('|')
RECURSIVE JoinPipe(_)
JoinPipe(parts) ==
    IF parts = <<>> THEN <<>>
    ELSE IF Len(parts) = 1 THEN Head(parts)
    ELSE Head(parts) \o <<Pipe>> \o JoinPipe(Tail(parts))

\* log.split('\n'): the texts between the newlines, always at least one line
SplitLines(t) ==
    LET P == {k \in 1..Len(t) : t[k] = NL}
        n == Cardinality(P)
        \* the position of the j-th newline, with the two ends of the text
        Pos(j) == IF j = 0 THEN 0
                  ELSE IF j > n THEN Len(t) + 1
                  ELSE CHOOSE k \in P : Cardinality({l \in P : l <= k}) = j
    IN [j \in 1..(n + 1) |-> SubSeq(t, Pos(j - 1) + 1, Pos(j) - 1)]

\* The text of a log made of the lines ls
RECURSIVE JoinLines(_)
JoinLines(ls) ==
    IF ls = <<>> THEN <<>>
    ELSE IF Len(ls) = 1 THEN Head(ls)
    ELSE Head(ls) \o <<NL>> \o JoinLines(Tail(ls))

\* text.replace(/\\n/g, '\n'): every escape becomes a newline
RECURSIVE ExpandEscapes(_)
ExpandEscapes(t) ==
    IF t = <<>> THEN <<>>
    ELSE <<IF Head(t) = EscN THEN NL ELSE Head(t)>> \o ExpandEscapes(Tail(t))

\* text.replace(/^DEBUG\|/, ''): only at the very start of the text
StripDebugPrefix(t) ==
    IF Len(t) >= 2 /\ t[1] = Word("DEBUG") /\ t[2] = Pipe
    THEN SubSeq(t, 3, Len(t))
    ELSE t

\* text.includes('\n')
HasNewline(t) == \E k \in 1..Len(t) : t[k] = NL

\* line.match(/^\d+:\d+:\d+/): the line starts with a clock time stamp
HasTimestampPrefix(line) == line # <<>> /\ line[1].k \in {"clock", "hms"}

\* parseFloat: leading white space is skipped, then the longest numeric
\* prefix is read ("12:34:56.7" gives 12); anything else gives NaN
ParseFloat(t) ==
    LET s == TrimLeft(t) IN
    IF s = <<>> THEN NaN
    ELSE IF s[1].k = "num" THEN s[1].n
    ELSE IF s[1].k \in {"clock", "hms"} THEN s[1].n * 1000 * UnitsPerMs
    ELSE NaN

\* The event tags the dispatcher looks for that occur inside the word w
\* (String.prototype.includes on the known tag texts)
TagsIn(w) ==
    CASE w = "SYSTEM_METHOD_ENTRY" -> {"SYSTEM_METHOD_ENTRY", "METHOD_ENTRY"}
      [] w = "SYSTEM_METHOD_EXIT" -> {"SYSTEM_METHOD_EXIT", "METHOD_EXIT"}
      [] w = "SYSTEM_CONSTRUCTOR_ENTRY" -> {"CONSTRUCTOR_ENTRY"}
      [] w = "SYSTEM_CONSTRUCTOR_EXIT" -> {"CONSTRUCTOR_EXIT"}
      [] w = "CUMULATIVE_LIMIT_USAGE_END" -> {"CUMULATIVE_LIMIT_USAGE"}
      [] w = "CUMULATIVE_PROFILING_BEGIN" -> {"CUMULATIVE_PROFILING"}
      [] w = "USER_DEBUG_SOQL_EXECUTE_BEGIN" -> {"USER_DEBUG", "SOQL_EXECUTE_BEGIN"}
      [] w \in {"EXECUTION_STARTED", "EXECUTION_FINISHED", "SOQL_EXECUTE_BEGIN",
                "DML_BEGIN", "USER_DEBUG", "HEAP_ALLOCATE", "EXCEPTION_THROWN",
                "FATAL_ERROR", "LIMIT_USAGE_FOR_NS", "CUMULATIVE_LIMIT_USAGE",
                "CUMULATIVE_PROFILING", "CODE_COVERAGE", "SYSTEM_MODE_ENTER",
                "SYSTEM_MODE_EXIT", "CONSTRUCTOR_ENTRY", "CONSTRUCTOR_EXIT",
                "METHOD_ENTRY", "METHOD_EXIT", "SOQL_EXECUTE_END", "DML_END"}
             -> {w}
      [] OTHER -> {}

\* eventType.includes(tag)
Includes(eventType, tag) ==
    \E k \in 1..Len(eventType) :
        eventType[k].k = "word" /\ tag \in TagsIn(eventType[k].s)

\* The first token of kind kind in the text t (the first match of the regular
\* expression that kind stands for), or <<>> when there is none
RECURSIVE FirstOfKind(_, _)
FirstOfKind(t, kinds) ==
    IF t = <<>> THEN <<>>
    ELSE IF Head(t).k \in kinds THEN <<Head(t)>>
    ELSE FirstOfKind(Tail(t), kinds)

\* ------------------------------------------------------------------------
\* The analysis accumulator and the event handlers
\* ------------------------------------------------------------------------
initializeAnalysis ==
    [summary |-> [totalTimeMs |-> 0, dbTimeMs |-> 0, heapSize |-> 0,
                  numDmlStatements |-> 0, numSoqlQueries |-> 0,
                  numDatabaseCalls |-> 0],
     debugLines |-> <<>>,
     timeline |-> <<>>,
     errors |-> <<>>,
     limits |-> <<>>,
     governorLimits |-> <<>>,
     methodCalls |-> <<>>,
     codeCoverage |-> <<>>,          \* absent: <<>>, present: <<summary>>
     hasCoverageInfo |-> FALSE,
     totalExecutionTimeMs |-> 0]

isPartOfPreviousDebugLine_positive(lastIdx, line) ==
    lastIdx > 0 /\ ~HasTimestampPrefix(line)

isPartOfPreviousDebugLine(lastIdx, line) ==
    lastIdx >= 0 /\ ~HasTimestampPrefix(line)

\* `Line ${lineNumber}: ${first}` followed by "..." when dots holds
DebugDetails(lineNumber, message, dots) ==
    <<Word("Line"), IntTok(lineNumber), Word(":")>> \o FirstLine(message)
        \o (IF dots THEN <<Word("...")>> ELSE <<>>)

\* index (1-based) of the last 'Debug Log' entry of the timeline, 0 if none
LastDebugLogEntry(timeline) ==
    LET S == {j \in 1..Len(timeline) : timeline[j].event = "Debug Log"} IN
    IF S = {} THEN 0 ELSE CHOOSE j \in S : \A l \in S : l <= j

\* the line goes to the first debug statement instead of the last
processContinuedDebugLine_first(a, line) ==
    IF a.debugLines = <<>> THEN a
    ELSE [a EXCEPT !.debugLines[1].message = @ \o <<NL>> \o StripDebugPrefix(line)]

processContinuedDebugLine(a, line) ==
    IF a.debugLines = <<>> THEN a
    ELSE
        LET n == Len(a.debugLines)
            lastDebug == a.debugLines[n]
            message == lastDebug.message \o <<NL>> \o StripDebugPrefix(line)
            j == LastDebugLogEntry(a.timeline)
            tl == IF j = 0 THEN a.timeline
                  ELSE [a.timeline EXCEPT ![j].details =
                            DebugDetails(lastDebug.lineNumber, message, TRUE)]
        IN [a EXCEPT !.debugLines[n].message = message, !.timeline = tl]

processExecutionStarted(a) ==
    [a EXCEPT !.timeline = Append(@, [event |-> "Execution Started", timeMs |-> 0])]

processExecutionFinished(a, start, end) ==
    LET total == RoundMs(Minus(end, start)) IN
    [a EXCEPT !.totalExecutionTimeMs = total,
              !.summary.totalTimeMs = total,
              !.timeline = Append(@, [event |-> "Execution Finished",
                                      timeMs |-> total])]

processSoqlQuery(a, parts, relativeTimeMs) ==
    [a EXCEPT !.summary.numSoqlQueries = @ + 1,
              !.timeline = Append(@, [event |-> "SOQL Query",
                                      timeMs |-> relativeTimeMs,
                                      details |-> Trim(JoinPipe(Slice(parts, 2)))])]

processDmlOperation(a, parts, relativeTimeMs) ==
    [a EXCEPT !.summary.numDmlStatements = @ + 1,
              !.timeline = Append(@, [event |-> "DML Operation",
                                      timeMs |-> relativeTimeMs,
                                      details |-> Trim(JoinPipe(Slice(parts, 2)))])]

\* the scan also stops at a blank line
RECURSIVE AbsorbStop_atBlank(_, _)
AbsorbStop_atBlank(lns, k) ==
    IF k < Len(lns) /\ ~HasTimestampPrefix(At(lns, k)) /\ Trim(At(lns, k)) # <<>>
    THEN AbsorbStop_atBlank(lns, k + 1)
    ELSE k

\* The index of the first line at or after k (0-based) that starts with a
\* time stamp, or lines.length: where the absorbing loop of processUserDebug
\* stops
RECURSIVE AbsorbStop(_, _)
AbsorbStop(lns, k) ==
    IF k < Len(lns) /\ ~HasTimestampPrefix(At(lns, k))
    THEN AbsorbStop(lns, k + 1)
    ELSE k

\* message += '\n' + lines[k] for k = from .. to - 1
RECURSIVE AbsorbText(_, _, _)
RECURSIVE AbsorbText_skipBlank(_, _, _)
AbsorbText_skipBlank(lns, from, to) ==
    IF from >= to THEN <<>>
    ELSE (IF Trim(At(lns, from)) = <<>> THEN <<>> ELSE <<NL>> \o At(lns, from))
             \o AbsorbText_skipBlank(lns, from + 1, to)

AbsorbText(lns, from, to) ==
    IF from >= to THEN <<>>
    ELSE <<NL>> \o At(lns, from) \o AbsorbText(lns, from + 1, to)

UserDebugNewIndex_back(nextLineIndex, currentIndex) == nextLineIndex - 2

\* The index processUserDebug returns to the loop
UserDebugNewIndex(nextLineIndex, currentIndex) ==
    IF nextLineIndex > currentIndex + 1 THEN nextLineIndex - 1 ELSE currentIndex

\* The message text of a user-debug line before continuation lines are added
UserDebugText(parts) ==
    StripDebugPrefix(ExpandEscapes(Trim(JoinPipe(Slice(parts, 3)))))

\* parts[2] is read without a check: a line with only two fields makes
\* processUserDebug throw a TypeError before it changes anything
UserDebugThrows(parts) == Len(parts) < 3

processUserDebug(a, lns, currentIndex, parts, relativeTimeMs, timestamp) ==
    LET lineMatch == FirstOfKind(At(parts, 2), {"lineref"})
        lineNumber == IF lineMatch # <<>> THEN lineMatch[1].n ELSE 0
        nextLineIndex == AbsorbStop(lns, currentIndex + 1)
        message == UserDebugText(parts)
                       \o AbsorbText(lns, currentIndex + 1, nextLineIndex)
    IN [analysis |->
            [a EXCEPT !.debugLines = Append(@, [lineNumber |-> lineNumber,
                                                message |-> message,
                                                timestamp |-> timestamp]),
                      !.timeline = Append(@, [event |-> "Debug Log",
                                              timeMs |-> relativeTimeMs,
                                              details |-> DebugDetails(lineNumber,
                                                  message, HasNewline(message))])],
        newIndex |-> UserDebugNewIndex(nextLineIndex, currentIndex)]

\* the heap size is that of the last heap line that carries one
processHeapAllocation_last(a, line) ==
    LET heapMatch == FirstOfKind(line, {"bytes"}) IN
    IF heapMatch # <<>>
    THEN [a EXCEPT !.summary.heapSize = heapMatch[1].n]
    ELSE a

processHeapAllocation(a, line) ==
    LET heapMatch == FirstOfKind(line, {"bytes"}) IN
    IF heapMatch # <<>> /\ heapMatch[1].n > a.summary.heapSize
    THEN [a EXCEPT !.summary.heapSize = heapMatch[1].n]
    ELSE a

\* line.match(/^\d+:\d+:\d+\|[A-Z_]+\|/): a bare clock time, the delimiter,
\* an upper-case tag and the delimiter again
IsUpperTag(tok) ==
    tok.k = "word"
    /\ (TagsIn(tok.s) # {} \/ tok.s \in {"CODE_UNIT_STARTED", "CODE_UNIT_FINISHED",
                                         "VARIABLE_SCOPE_BEGIN"})

IsEventHeader(line) ==
    /\ Len(line) >= 4
    /\ line[1].k = "hms"
    /\ line[2] = Pipe
    /\ IsUpperTag(line[3])
    /\ line[4] = Pipe

StackLookahead == 30

\* The stack trace collected from lines[j], lines[j+1], ... while
\* j < lines.length and j < limit, given the text st collected so far
RECURSIVE CollectStack(_, _, _, _)
CollectStack(lns, j, limit, st) ==
    IF ~(j < Len(lns) /\ j < limit) THEN st
    ELSE IF IsEventHeader(At(lns, j)) THEN st
    ELSE IF Trim(At(lns, j)) # <<>>
         THEN CollectStack(lns, j + 1, limit,
                  st \o (IF st # <<>> THEN <<NL>> ELSE <<>>) \o Trim(At(lns, j)))
         ELSE CollectStack(lns, j + 1, limit, st)

\* the error record is stored and the timeline is left alone
processException_untimed(a, parts, relativeTimeMs, lns, currentIndex) ==
    [a EXCEPT !.errors = Append(@, [message |-> Trim(JoinPipe(Slice(parts, 2))),
                                    lineNumber |-> <<>>,
                                    columnNumber |-> <<>>,
                                    stackTrace |-> <<>>])]

\* An optional field of a record: <<>> when absent, <<v>> when present
processException(a, parts, relativeTimeMs, lns, currentIndex) ==
    LET errorMessage == Trim(JoinPipe(Slice(parts, 2)))
        lineColMatch == FirstOfKind(errorMessage, {"linecol", "lineonly"})
        lineNumber == IF lineColMatch # <<>> THEN <<lineColMatch[1].n>> ELSE <<>>
        columnNumber == IF lineColMatch # <<>> /\ lineColMatch[1].k = "linecol"
                        THEN <<lineColMatch[1].m>> ELSE <<>>
        stackTrace == CollectStack(lns, currentIndex + 1,
                                   currentIndex + StackLookahead, <<>>)
        errorObj == [message |-> errorMessage,
                     lineNumber |-> lineNumber,
                     columnNumber |-> columnNumber,
                     stackTrace |-> IF stackTrace # <<>> THEN <<stackTrace>> ELSE <<>>]
    IN [a EXCEPT !.errors = Append(@, errorObj),
                 !.timeline = Append(@, [event |-> "Error",
                                         timeMs |-> relativeTimeMs,
                                         details |-> errorMessage])]

\* parts[2] || fallback: a missing or empty field gives the fallback
FieldOr(parts, k, fallback) ==
    IF Len(parts) > k /\ At(parts, k) # <<>> THEN At(parts, k) ELSE <<Word(fallback)>>

processMethodEntry(a, parts, relativeTimeMs) ==
    [a EXCEPT !.timeline = Append(@, [event |-> "Method Entry",
                                      timeMs |-> relativeTimeMs,
                                      details |-> FieldOr(parts, 2, "Unknown Method")])]

processMethodExit(a, parts, relativeTimeMs) ==
    [a EXCEPT !.timeline = Append(@, [event |-> "Method Exit",
                                      timeMs |-> relativeTimeMs,
                                      details |-> FieldOr(parts, 2, "Unknown Method")])]

\* ------------------------------------------------------------------------
\* Limit tracking.  The Map of the source keeps its keys in insertion order;
\* set() on a present key replaces the value and keeps the key's position.
\* ------------------------------------------------------------------------
MapHas(map, name) == \E k \in 1..Len(map) : map[k].name = name

MapSet_max(map, name, used, total) ==
    IF MapHas(map, name)
    THEN [k \in 1..Len(map) |->
             IF map[k].name = name /\ used * map[k].total >= map[k].used * total
             THEN [name |-> name, used |-> used, total |-> total]
             ELSE map[k]]
    ELSE Append(map, [name |-> name, used |-> used, total |-> total])

MapSet(map, name, used, total) ==
    IF MapHas(map, name)
    THEN [k \in 1..Len(map) |->
             IF map[k].name = name
             THEN [name |-> name, used |-> used, total |-> total]
             ELSE map[k]]
    ELSE Append(map, [name |-> name, used |-> used, total |-> total])

\* limitPart.match(/([^:]+):\s*(\d+)\s*of\s*(\d+)/) on the trimmed field
LimitMatch(part) == FirstOfKind(Trim(part), {"limit"})

\* for (j = from; j < parts.length; j++) of processLimitUsage
RECURSIVE LimitUsageFrom(_, _, _)
LimitUsageFrom(map, parts, j) ==
    IF j >= Len(parts) THEN map
    ELSE LET m == LimitMatch(At(parts, j)) IN
         IF m = <<>> THEN LimitUsageFrom(map, parts, j + 1)
         ELSE LimitUsageFrom(MapSet(map, m[1].s, m[1].n, m[1].m), parts, j + 1)

processLimitUsage(a, map, parts) ==
    [analysis |-> a, limitMap |-> LimitUsageFrom(map, parts, 2)]

IsHighUsage_atHalf(used, total) == used > 0 /\ 2 * used >= total

\* used > 0 && (used / total) > 0.5
IsHighUsage(used, total) == used > 0 /\ 2 * used > total

HighUsageDetails(name, used, total) ==
    <<LimitTok(name, used, total), IntTok(RoundPercent(used, total))>>

\* One matched field of a cumulative line
CumulativeSample(st, name, used, total, relativeTimeMs) ==
    LET a1 == [st.analysis EXCEPT
                  !.governorLimits = Append(@, [name |-> name, usage |-> used,
                                                total |-> total])]
        a2 == IF IsHighUsage(used, total)
              THEN [a1 EXCEPT !.timeline = Append(@,
                        [event |-> "High Limit Usage",
                         timeMs |-> relativeTimeMs,
                         details |-> HighUsageDetails(name, used, total)])]
              ELSE a1
    IN [analysis |-> a2, limitMap |-> MapSet(st.limitMap, name, used, total)]

\* for (j = from; j < parts.length; j++) of processCumulativeLimits
RECURSIVE CumulativeFrom(_, _, _, _)
CumulativeFrom(st, parts, j, relativeTimeMs) ==
    IF j >= Len(parts) THEN st
    ELSE LET m == LimitMatch(At(parts, j)) IN
         IF m = <<>> THEN CumulativeFrom(st, parts, j + 1, relativeTimeMs)
         ELSE CumulativeFrom(
                  CumulativeSample(st, m[1].s, m[1].n, m[1].m, relativeTimeMs),
                  parts, j + 1, relativeTimeMs)

\* the cumulative handler reads the fields from index 2 on as well
processCumulativeLimits_fromTwo(a, map, parts, relativeTimeMs) ==
    CumulativeFrom([analysis |-> a, limitMap |-> map], parts, 2, relativeTimeMs)

processCumulativeLimits(a, map, parts, relativeTimeMs) ==
    CumulativeFrom([analysis |-> a, limitMap |-> map], parts, 3, relativeTimeMs)

processProfilingData_recorded(a, parts) ==
    [a EXCEPT !.timeline = Append(@, [event |-> "Profiling", timeMs |-> 0])]

processProfilingData(a, parts) == a

\* ------------------------------------------------------------------------
\* Code coverage: three extractions from the joined remainder of the line
\* ------------------------------------------------------------------------
\* uncoveredText.split(',').map(n => parseInt(n.trim())).filter(n => !isNaN(n))
RECURSIVE DropNaN(_)
DropNaN(ns) ==
    IF ns = <<>> THEN <<>>
    ELSE (IF IsNaN(Head(ns)) THEN <<>> ELSE <<Head(ns)>>) \o DropNaN(Tail(ns))

\* every percentage found starts a new summary
CoveragePercent_recreate(a, text) ==
    LET percentMatch == FirstOfKind(text, {"percent"}) IN
    IF percentMatch = <<>> THEN a
    ELSE [a EXCEPT !.codeCoverage =
              <<[coveragePercentage |-> percentMatch[1].n, linesCovered |-> 0,
                 linesTotal |-> 0, uncoveredLines |-> <<>>]>>]

CoveragePercent(a, text) ==
    LET percentMatch == FirstOfKind(text, {"percent"}) IN
    IF percentMatch = <<>> THEN a
    ELSE IF a.codeCoverage = <<>>
         THEN [a EXCEPT !.codeCoverage =
                   <<[coveragePercentage |-> percentMatch[1].n, linesCovered |-> 0,
                      linesTotal |-> 0, uncoveredLines |-> <<>>]>>]
         ELSE [a EXCEPT !.codeCoverage[1].coveragePercentage = percentMatch[1].n]

\* a summary created from the ratio starts with the percentage at zero
CoverageLines_zero(a, text) ==
    LET linesMatch == FirstOfKind(text, {"ratio"}) IN
    IF linesMatch = <<>> THEN a
    ELSE IF a.codeCoverage = <<>>
         THEN [a EXCEPT !.codeCoverage =
                   <<[coveragePercentage |-> 0,
                      linesCovered |-> linesMatch[1].n,
                      linesTotal |-> linesMatch[1].m,
                      uncoveredLines |-> <<>>]>>]
         ELSE [a EXCEPT !.codeCoverage[1].linesCovered = linesMatch[1].n,
                        !.codeCoverage[1].linesTotal = linesMatch[1].m]

CoverageLines(a, text) ==
    LET linesMatch == FirstOfKind(text, {"ratio"}) IN
    IF linesMatch = <<>> THEN a
    ELSE IF a.codeCoverage = <<>>
         THEN [a EXCEPT !.codeCoverage =
                   <<[coveragePercentage |->
                          RoundPercent(linesMatch[1].n, linesMatch[1].m),
                      linesCovered |-> linesMatch[1].n,
                      linesTotal |-> linesMatch[1].m,
                      uncoveredLines |-> <<>>]>>]
         ELSE [a EXCEPT !.codeCoverage[1].linesCovered = linesMatch[1].n,
                        !.codeCoverage[1].linesTotal = linesMatch[1].m]

CoverageUncovered(a, text) ==
    LET uncoveredLinesMatch == FirstOfKind(text, {"notcovered"}) IN
    IF uncoveredLinesMatch = <<>> THEN a
    ELSE LET uncoveredLines == DropNaN(uncoveredLinesMatch[1].ns) IN
         IF a.codeCoverage = <<>>
         THEN [a EXCEPT !.codeCoverage =
                   <<[coveragePercentage |-> 0, linesCovered |-> 0,
                      linesTotal |-> 0, uncoveredLines |-> uncoveredLines]>>]
         ELSE [a EXCEPT !.codeCoverage[1].uncoveredLines = uncoveredLines]

\* the flag follows the summary: set only when an extraction succeeded
processCodeCoverage_whenFound(a, parts) ==
    LET coverageText == JoinPipe(Slice(parts, 2))
        b == CoverageUncovered(
                 CoverageLines(CoveragePercent(a, coverageText), coverageText),
                 coverageText)
    IN [b EXCEPT !.hasCoverageInfo = (@ \/ b.codeCoverage # <<>>)]

processCodeCoverage(a, parts) ==
    LET coverageText == JoinPipe(Slice(parts, 2)) IN
    CoverageUncovered(
        CoverageLines(
            CoveragePercent([a EXCEPT !.hasCoverageInfo = TRUE], coverageText),
            coverageText),
        coverageText)

processSystemMode(a, eventType, relativeTimeMs) ==
    LET isEnter == Includes(eventType, "SYSTEM_MODE_ENTER") IN
    [a EXCEPT !.timeline = Append(@,
        [event |-> IF isEnter THEN "System Mode Enter" ELSE "System Mode Exit",
         timeMs |-> relativeTimeMs])]

processConstructor(a, eventType, parts, relativeTimeMs) ==
    LET isEntry == Includes(eventType, "CONSTRUCTOR_ENTRY") IN
    [a EXCEPT !.timeline = Append(@,
        [event |-> IF isEntry THEN "Constructor Entry" ELSE "Constructor Exit",
         timeMs |-> relativeTimeMs,
         details |-> FieldOr(parts, 2, "Unknown Class")])]

processCustomMethod(a, eventType, parts, relativeTimeMs) ==
    LET isEntry == Includes(eventType, "METHOD_ENTRY") IN
    [a EXCEPT !.timeline = Append(@,
        [event |-> IF isEntry THEN "Method Entry" ELSE "Method Exit",
         timeMs |-> relativeTimeMs,
         details |-> FieldOr(parts, 2, "Unknown Method")])]

\* processSoqlEnd and processDmlEnd differ only in the event label
DurationEnd(a, parts, relativeTimeMs, label) ==
    LET durationMatch == FirstOfKind(JoinPipe(Slice(parts, 2)), {"duration"}) IN
    IF durationMatch = <<>> THEN a
    ELSE [a EXCEPT !.summary.dbTimeMs = @ + durationMatch[1].n,
                   !.timeline = Append(@,
                       [event |-> label,
                        timeMs |-> relativeTimeMs,
                        details |-> <<Word("Duration:"), IntTok(durationMatch[1].n),
                                      Word("ms")>>])]

processSoqlEnd(a, parts, relativeTimeMs) ==
    DurationEnd(a, parts, relativeTimeMs, "SOQL Query Completed")

processDmlEnd(a, parts, relativeTimeMs) ==
    DurationEnd(a, parts, relativeTimeMs, "DML Operation Completed")

\* ------------------------------------------------------------------------
\* finalizeAnalysis
\* ------------------------------------------------------------------------
LimitPercentage(used, total) ==
    IF total > 0 THEN RoundPercent(used, total) ELSE 0

\* Array.prototype.sort((a, b) => b.percentage - a.percentage) is stable:
\* an entry goes behind every entry whose percentage is not smaller
RECURSIVE InsertByPercentage(_, _)
RECURSIVE InsertByPercentage_front(_, _)
\* an entry goes before the entries of its own percentage
InsertByPercentage_front(sorted, x) ==
    IF sorted = <<>> THEN <<x>>
    ELSE IF Head(sorted).percentage > x.percentage
         THEN <<Head(sorted)>> \o InsertByPercentage_front(Tail(sorted), x)
         ELSE <<x>> \o sorted

InsertByPercentage(sorted, x) ==
    IF sorted = <<>> THEN <<x>>
    ELSE IF Head(sorted).percentage >= x.percentage
         THEN <<Head(sorted)>> \o InsertByPercentage(Tail(sorted), x)
         ELSE <<x>> \o sorted

RECURSIVE SortByPercentage(_)
SortByPercentage(xs) ==
    IF xs = <<>> THEN <<>>
    ELSE InsertByPercentage(SortByPercentage(SubSeq(xs, 1, Len(xs) - 1)), xs[Len(xs)])

LimitEntry(v) ==
    [name |-> v.name, used |-> v.used, total |-> v.total,
     percentage |-> LimitPercentage(v.used, v.total)]

\* the raw samples are dropped once the limits list is built
finalizeAnalysis_dropSamples(a, map) ==
    [a EXCEPT !.limits = SortByPercentage(@ \o [k \in 1..Len(map) |-> LimitEntry(map[k])]),
              !.governorLimits = <<>>,
              !.summary.numDatabaseCalls =
                  a.summary.numSoqlQueries + a.summary.numDmlStatements]

finalizeAnalysis(a, map) ==
    [a EXCEPT !.limits = SortByPercentage(@ \o [k \in 1..Len(map) |-> LimitEntry(map[k])]),
              !.summary.numDatabaseCalls =
                  a.summary.numSoqlQueries + a.summary.numDmlStatements]

\* ------------------------------------------------------------------------
\* The dispatcher: the if / else-if chain of the loop body.  RuleOf gives the
\* branch taken for an event tag, "NONE" when no branch matches.
\* ------------------------------------------------------------------------
\* The rules in the order they are declared, each with the texts it looks for
DeclaredOrder ==
    <<[rule |-> "EXECUTION_STARTED", tags |-> {"EXECUTION_STARTED"}],
      [rule |-> "EXECUTION_FINISHED", tags |-> {"EXECUTION_FINISHED"}],
      [rule |-> "SOQL_EXECUTE_BEGIN", tags |-> {"SOQL_EXECUTE_BEGIN"}],
      [rule |-> "DML_BEGIN", tags |-> {"DML_BEGIN"}],
      [rule |-> "USER_DEBUG", tags |-> {"USER_DEBUG"}],
      [rule |-> "HEAP_ALLOCATE", tags |-> {"HEAP_ALLOCATE"}],
      [rule |-> "EXCEPTION", tags |-> {"EXCEPTION_THROWN", "FATAL_ERROR"}],
      [rule |-> "SYSTEM_METHOD_ENTRY", tags |-> {"SYSTEM_METHOD_ENTRY"}],
      [rule |-> "SYSTEM_METHOD_EXIT", tags |-> {"SYSTEM_METHOD_EXIT"}],
      [rule |-> "LIMIT_USAGE_FOR_NS", tags |-> {"LIMIT_USAGE_FOR_NS"}],
      [rule |-> "CUMULATIVE_LIMIT_USAGE", tags |-> {"CUMULATIVE_LIMIT_USAGE"}],
      [rule |-> "CUMULATIVE_PROFILING", tags |-> {"CUMULATIVE_PROFILING"}],
      [rule |-> "CODE_COVERAGE", tags |-> {"CODE_COVERAGE"}],
      [rule |-> "SYSTEM_MODE", tags |-> {"SYSTEM_MODE_ENTER", "SYSTEM_MODE_EXIT"}],
      [rule |-> "CONSTRUCTOR", tags |-> {"CONSTRUCTOR_ENTRY", "CONSTRUCTOR_EXIT"}],
      [rule |-> "CUSTOM_METHOD", tags |-> {"METHOD_ENTRY", "METHOD_EXIT"}],
      [rule |-> "SOQL_EXECUTE_END", tags |-> {"SOQL_EXECUTE_END"}],
      [rule |-> "DML_END", tags |-> {"DML_END"}]>>

\* The positions in DeclaredOrder of the rules whose text the tag contains
MatchingRules(eventType) ==
    {k \in 1..Len(DeclaredOrder) :
        \E t \in DeclaredOrder[k].tags : Includes(eventType, t)}

FirstDeclared(eventType) ==
    LET S == MatchingRules(eventType) IN
    IF S = {} THEN "NONE"
    ELSE DeclaredOrder[CHOOSE k \in S : \A l \in S : k <= l].rule

\* independent conditionals instead of a chain: the last match wins
RuleOf_lastMatch(eventType) ==
    LET S == MatchingRules(eventType) IN
    IF S = {} THEN "NONE"
    ELSE DeclaredOrder[CHOOSE k \in S : \A l \in S : l <= k].rule

RuleOf(eventType) ==
    IF Includes(eventType, "EXECUTION_STARTED") THEN "EXECUTION_STARTED"
    ELSE IF Includes(eventType, "EXECUTION_FINISHED") THEN "EXECUTION_FINISHED"
    ELSE IF Includes(eventType, "SOQL_EXECUTE_BEGIN") THEN "SOQL_EXECUTE_BEGIN"
    ELSE IF Includes(eventType, "DML_BEGIN") THEN "DML_BEGIN"
    ELSE IF Includes(eventType, "USER_DEBUG") THEN "USER_DEBUG"
    ELSE IF Includes(eventType, "HEAP_ALLOCATE") THEN "HEAP_ALLOCATE"
    ELSE IF Includes(eventType, "EXCEPTION_THROWN")
            \/ Includes(eventType, "FATAL_ERROR") THEN "EXCEPTION"
    ELSE IF Includes(eventType, "SYSTEM_METHOD_ENTRY") THEN "SYSTEM_METHOD_ENTRY"
    ELSE IF Includes(eventType, "SYSTEM_METHOD_EXIT") THEN "SYSTEM_METHOD_EXIT"
    ELSE IF Includes(eventType, "LIMIT_USAGE_FOR_NS") THEN "LIMIT_USAGE_FOR_NS"
    ELSE IF Includes(eventType, "CUMULATIVE_LIMIT_USAGE") THEN "CUMULATIVE_LIMIT_USAGE"
    ELSE IF Includes(eventType, "CUMULATIVE_PROFILING") THEN "CUMULATIVE_PROFILING"
    ELSE IF Includes(eventType, "CODE_COVERAGE") THEN "CODE_COVERAGE"
    ELSE IF Includes(eventType, "SYSTEM_MODE_ENTER")
            \/ Includes(eventType, "SYSTEM_MODE_EXIT") THEN "SYSTEM_MODE"
    ELSE IF Includes(eventType, "CONSTRUCTOR_ENTRY")
            \/ Includes(eventType, "CONSTRUCTOR_EXIT") THEN "CONSTRUCTOR"
    ELSE IF Includes(eventType, "METHOD_ENTRY")
            \/ Includes(eventType, "METHOD_EXIT") THEN "CUSTOM_METHOD"
    ELSE IF Includes(eventType, "SOQL_EXECUTE_END") THEN "SOQL_EXECUTE_END"
    ELSE IF Includes(eventType, "DML_END") THEN "DML_END"
    ELSE "NONE"

RelativeTimeMs_absolute(currentTime, start) == RoundMs(currentTime)

\* Math.round((currentTime - startTime) * 1000)
RelativeTimeMs(currentTime, start) == RoundMs(Minus(currentTime, start))

\* The try block from the split of the line on, for a line with at least two
\* fields.  st holds the locals of analyzeApexLog; the result holds them
\* after the branch: i is the loop counter as the branch leaves it (the
\* for statement adds 1 afterwards), thrown tells that the branch raised.
DispatchEvent(st, lns, idx) ==
    LET line == At(lns, idx)
        parts == SplitPipe(line)
        timestamp == At(parts, 0)
        eventType == At(parts, 1)
        currentTime == ParseFloat(timestamp)
        relativeTimeMs == RelativeTimeMs(currentTime, st.startTime)
        rule == RuleOf(eventType)
        a == st.analysis
        closed == [st EXCEPT !.lastDebugLineIndex = -1]
    IN CASE rule = "EXECUTION_STARTED" ->
              [closed EXCEPT !.startTime = currentTime,
                             !.analysis = processExecutionStarted(a)]
         [] rule = "EXECUTION_FINISHED" ->
              [closed EXCEPT !.endTime = currentTime,
                             !.analysis = processExecutionFinished(a, st.startTime,
                                                                   currentTime)]
         [] rule = "SOQL_EXECUTE_BEGIN" ->
              [closed EXCEPT !.analysis = processSoqlQuery(a, parts, relativeTimeMs)]
         [] rule = "DML_BEGIN" ->
              [closed EXCEPT !.analysis = processDmlOperation(a, parts, relativeTimeMs)]
         [] rule = "USER_DEBUG" ->
              IF UserDebugThrows(parts)
              THEN [st EXCEPT !.lastDebugLineIndex = idx, !.thrown = TRUE]
              ELSE LET r == processUserDebug(a, lns, idx, parts, relativeTimeMs,
                                             timestamp)
                   IN [st EXCEPT !.lastDebugLineIndex = idx,
                                 !.analysis = r.analysis,
                                 !.i = r.newIndex]
         [] rule = "HEAP_ALLOCATE" ->
              [closed EXCEPT !.analysis = processHeapAllocation(a, line)]
         [] rule = "EXCEPTION" ->
              [closed EXCEPT !.analysis = processException(a, parts, relativeTimeMs,
                                                           lns, idx)]
         [] rule = "SYSTEM_METHOD_ENTRY" ->
              [closed EXCEPT !.analysis = processMethodEntry(a, parts, relativeTimeMs)]
         [] rule = "SYSTEM_METHOD_EXIT" ->
              [closed EXCEPT !.analysis = processMethodExit(a, parts, relativeTimeMs)]
         [] rule = "LIMIT_USAGE_FOR_NS" ->
              LET r == processLimitUsage(a, st.limitMap, parts)
              IN [closed EXCEPT !.analysis = r.analysis, !.limitMap = r.limitMap]
         [] rule = "CUMULATIVE_LIMIT_USAGE" ->
              LET r == processCumulativeLimits(a, st.limitMap, parts, relativeTimeMs)
              IN [closed EXCEPT !.analysis = r.analysis, !.limitMap = r.limitMap]
         [] rule = "CUMULATIVE_PROFILING" ->
              [closed EXCEPT !.analysis = processProfilingData(a, parts)]
         [] rule = "CODE_COVERAGE" ->
              [closed EXCEPT !.analysis = processCodeCoverage(a, parts)]
         [] rule = "SYSTEM_MODE" ->
              [closed EXCEPT !.analysis = processSystemMode(a, eventType,
                                                            relativeTimeMs)]
         [] rule = "CONSTRUCTOR" ->
              [closed EXCEPT !.analysis = processConstructor(a, eventType, parts,
                                                             relativeTimeMs)]
         [] rule = "CUSTOM_METHOD" ->
              [closed EXCEPT !.analysis = processCustomMethod(a, eventType, parts,
                                                              relativeTimeMs)]
         [] rule = "SOQL_EXECUTE_END" ->
              [closed EXCEPT !.analysis = processSoqlEnd(a, parts, relativeTimeMs)]
         [] rule = "DML_END" ->
              [closed EXCEPT !.analysis = processDmlEnd(a, parts, relativeTimeMs)]
         [] OTHER -> st

CatchLineError_rethrow(o) == o

\* catch (error) { console.error(...) }: the error is swallowed and logged
CatchLineError(o) == [o EXCEPT !.thrown = FALSE, !.logged = TRUE]

\* ------------------------------------------------------------------------
\* filterLogsForMethod: values, sanitising and the scan of one line
\* ------------------------------------------------------------------------
Punct(s) == [k |-> "punct", s |-> s]       \* characters outside [a-zA-Z0-9_.]

\* Argument values: a string carries its text; anything else only its type
Str(t) == [type |-> "string", text |-> t]
Undefined == [type |-> "undefined"]
NotAString == [type |-> "number"]

\* A log argument: its text, its length in characters (a token stands for
\* any number of characters) and the number of further empty lines at its
\* end that the text does not spell out
LogText(t, length, extraLines) ==
    [type |-> "string", text |-> t, length |-> length, extraLines |-> extraLines]

MAX_LOG_SIZE == 1048576
MAX_LINES == 50000

NoLogsAdvisory == <<Word("No logs available for this method.")>>
InvalidInputsAdvisory == <<Word("Invalid inputs for log filtering.")>>
TooLargeAdvisory ==
    <<Word("Log is too large to display. Please check the raw logs on Salesforce.")>>

NoLogs_undefinedOnly(d) == d.type = "undefined"

\* !debugLog || debugLog === 'No logs found'
NoLogs(d) ==
    \/ d.type = "undefined"
    \/ d.type = "string" /\ d.text = <<>> /\ d.extraLines = 0
    \/ d.type = "string" /\ d.text = <<Word("No logs found")>> /\ d.extraLines = 0

InvalidInputs_none(c, m, su) == FALSE

\* typeof className !== 'string' || typeof methodName !== 'string' ||
\* (setupMethodName !== undefined && typeof setupMethodName !== 'string')
InvalidInputs(c, m, su) ==
    \/ c.type # "string"
    \/ m.type # "string"
    \/ (su.type # "undefined" /\ su.type # "string")

\* name.replace(/[^a-zA-Z0-9_\.]/g, ''): only words (runs of letters, digits,
\* underscores and dots) are kept
RECURSIVE SanitizeText(_)
SanitizeText(t) ==
    IF t = <<>> THEN <<>>
    ELSE (IF Head(t).k = "word" THEN <<Head(t)>> ELSE <<>>) \o SanitizeText(Tail(t))

\* replace is a method of strings only: on any other value the call throws
SanitizeThrows(v) == v.type # "string"

\* setupMethodName ? setupMethodName.replace(...) : ''
Truthy(v) == v.type = "string" /\ v.text # <<>>

\* text.includes(pat): pat occurs as a contiguous run of the text
ContainsText(t, pat) ==
    \E k \in 1..(Len(t) - Len(pat) + 1) : SubSeq(t, k, k + Len(pat) - 1) = pat

\* `${safeClassName}.${name}`
Qualified(safeClass, name) == safeClass \o <<Word(".")>> \o name

UnitStarted == <<Word("CODE_UNIT_STARTED")>>
UnitFinished == <<Word("CODE_UNIT_FINISHED")>>

FlushCurrent_drop(st) == [st EXCEPT !.currentSection = <<>>]

\* The locals of the scan: n holds the sanitised names and the raw setup name
\* if (currentSection.length > 0) { ...push(...currentSection); currentSection = []; }
FlushCurrent(st) ==
    IF st.currentSection = <<>> THEN st
    ELSE IF st.inSetupMethod
         THEN [st EXCEPT !.setupMethodSections = @ \o st.currentSection,
                         !.currentSection = <<>>]
    ELSE IF st.inTestMethod
         THEN [st EXCEPT !.testMethodSections = @ \o st.currentSection,
                         !.currentSection = <<>>]
    ELSE [st EXCEPT !.currentSection = <<>>]

IsSetupStart(n, line) ==
    /\ ContainsText(line, UnitStarted)
    /\ n.safeSetupMethodName # <<>>
    /\ ContainsText(line, Qualified(n.safeClassName, n.safeSetupMethodName))

IsTestStart(n, line) ==
    /\ ContainsText(line, UnitStarted)
    /\ ~IsSetupStart(n, line)
    /\ ContainsText(line, Qualified(n.safeClassName, n.safeMethodName))

IsStart(n, line) == IsSetupStart(n, line) \/ IsTestStart(n, line)

IsSetupEnd(n, st, line) ==
    /\ ~IsStart(n, line)
    /\ ContainsText(line, UnitFinished)
    /\ st.inSetupMethod
    /\ Truthy(n.setupMethodName)
    /\ ContainsText(line, Qualified(n.safeClassName, n.safeSetupMethodName))

IsTestEnd(n, st, line) ==
    /\ ~IsStart(n, line)
    /\ ContainsText(line, UnitFinished)
    /\ ~IsSetupEnd(n, st, line)
    /\ st.inTestMethod
    /\ ContainsText(line, Qualified(n.safeClassName, n.safeMethodName))

NoteCodeUnit(st, line) ==
    IF ContainsText(line, UnitStarted)
    THEN [st EXCEPT !.lastCodeUnitStarted = line]
    ELSE st

OpenSetup(st, line) ==
    [FlushCurrent(st) EXCEPT !.inSetupMethod = TRUE, !.inTestMethod = FALSE,
                             !.currentSection = Append(@, line)]

OpenTest(st, line) ==
    [FlushCurrent(st) EXCEPT !.inTestMethod = TRUE, !.inSetupMethod = FALSE,
                             !.currentSection = Append(@, line)]

CloseSetup(st, line) ==
    [st EXCEPT !.setupMethodSections = @ \o Append(st.currentSection, line),
               !.currentSection = <<>>,
               !.inSetupMethod = FALSE]

\* the closed test section is added to both lists
CloseTest_both(st, line) ==
    [st EXCEPT !.testMethodSections = @ \o Append(st.currentSection, line),
               !.setupMethodSections = @ \o Append(st.currentSection, line),
               !.currentSection = <<>>,
               !.inTestMethod = FALSE]

CloseTest(st, line) ==
    [st EXCEPT !.testMethodSections = @ \o Append(st.currentSection, line),
               !.currentSection = <<>>,
               !.inTestMethod = FALSE]

\* every line is buffered, inside a section or not
BufferLine_always(st, line) == [st EXCEPT !.currentSection = Append(@, line)]

\* if (inSetupMethod || inTestMethod) currentSection.push(line);
BufferLine(st, line) ==
    IF st.inSetupMethod \/ st.inTestMethod
    THEN [st EXCEPT !.currentSection = Append(@, line)]
    ELSE st

\* One pass through the body of the scanning loop
ScanLine(n, st0, line) ==
    LET st == NoteCodeUnit(st0, line) IN
    IF IsSetupStart(n, line) THEN OpenSetup(st, line)
    ELSE IF IsTestStart(n, line) THEN OpenTest(st, line)
    ELSE IF IsSetupEnd(n, st, line) THEN CloseSetup(st, line)
    ELSE IF IsTestEnd(n, st, line) THEN CloseTest(st, line)
    ELSE BufferLine(st, line)

\* the lines still buffered at the end of the input are left behind
FlushRemaining_none(st) == st

\* if (currentSection.length > 0) { ... } after the loop
FlushRemaining(st) ==
    IF st.currentSection = <<>> THEN st
    ELSE IF st.inSetupMethod
         THEN [st EXCEPT !.setupMethodSections = @ \o st.currentSection]
    ELSE IF st.inTestMethod
         THEN [st EXCEPT !.testMethodSections = @ \o st.currentSection]
    ELSE st

SetupHeader(n) ==
    <<<<Word("==== TEST SETUP METHOD ====")>>,
      Qualified(n.safeClassName,
                IF n.safeSetupMethodName # <<>> THEN n.safeSetupMethodName
                ELSE <<Word("Unknown Setup Method")>>),
      <<>>>>

TestHeader(n) ==
    <<<<Word("==== TEST METHOD ====")>>,
      Qualified(n.safeClassName, n.safeMethodName),
      <<>>>>

SectionLines(n, st) ==
    (IF st.setupMethodSections # <<>>
     THEN SetupHeader(n) \o st.setupMethodSections \o <<<<>>>>
     ELSE <<>>)
    \o (IF st.testMethodSections # <<>>
        THEN TestHeader(n) \o st.testMethodSections
        ELSE <<>>)

IsRelevant_testOnly(n, line) ==
    ContainsText(line, Qualified(n.safeClassName, n.safeMethodName))

\* logLines.filter(line => line.includes(test name) || (safeSetup && ...))
IsRelevant(n, line) ==
    \/ ContainsText(line, Qualified(n.safeClassName, n.safeMethodName))
    \/ /\ n.safeSetupMethodName # <<>>
       /\ ContainsText(line, Qualified(n.safeClassName, n.safeSetupMethodName))

FallbackHeader(n) ==
    <<<<Word("No specific method boundaries found for ")>>
          \o Qualified(n.safeClassName, n.safeMethodName),
      <<Word("Showing any log entries containing references to this method:")>>,
      <<>>>>

NoReferences(n) ==
    <<Word("No references to ")>> \o Qualified(n.safeClassName, n.safeMethodName)
        \o <<Word(" found in the logs.")>>

FallbackLines_bare(n, lns) ==
    FallbackHeader(n) \o SelectSeq(lns, LAMBDA l : IsRelevant(n, l))

FallbackLines(n, lns) ==
    LET relevantLines == SelectSeq(lns, LAMBDA l : IsRelevant(n, l)) IN
    FallbackHeader(n)
        \o (IF relevantLines # <<>> THEN relevantLines ELSE <<NoReferences(n)>>)

\* From "Add any remaining sections" to the return: the lines joined by '\n'
AssembleOutput(n, st0, lns) ==
    LET st == FlushRemaining(st0)
        filteredLines == SectionLines(n, st)
    IN JoinLines(IF filteredLines = <<>> THEN FallbackLines(n, lns)
                 ELSE filteredLines)

\* ------------------------------------------------------------------------
\* Input logs
\* ------------------------------------------------------------------------
\* "<ts>|<TAG>|<field>|<field>..."
Ev(ts, tag, fields) == <<ts, Pipe, Word(tag)>> \o fields
F(t) == <<Pipe>> \o t

EmptyLine == <<>>
SpaceLine == <<Sp>>
TextLine == <<Word("more")>>
StartNum == Ev(Num(100000), "EXECUTION_STARTED", <<>>)           \* 10.0
StartClock == Ev(Clock(12), "EXECUTION_STARTED", <<>>)
FinishNum == Ev(Num(102500), "EXECUTION_FINISHED", <<>>)         \* 10.25
FinishFrac == Ev(Num(102507), "EXECUTION_FINISHED", <<>>)        \* 10.2507
SoqlNum == Ev(Num(101000), "SOQL_EXECUTE_BEGIN", F(<<LineRef(3)>>) \o F(<<Word("SELECT")>>))
SoqlClock == Ev(Clock(12), "SOQL_EXECUTE_BEGIN", F(<<LineRef(3)>>) \o F(<<Word("SELECT")>>))
DmlClock == Ev(Clock(12), "DML_BEGIN", F(<<LineRef(4)>>) \o F(<<Word("Insert")>>))
DebugNum == Ev(Num(101200), "USER_DEBUG",                        \* 10.12
               F(<<LineRef(8)>>) \o F(<<Word("DEBUG")>>)
                   \o F(<<Word("a"), EscN, Word("b"), Sp>>))
DebugShort == Ev(Clock(12), "USER_DEBUG", <<>>)

LogLines ==
    {EmptyLine, SpaceLine, TextLine, StartNum, StartClock, FinishNum, FinishFrac,
     SoqlNum, SoqlClock, DmlClock, DebugNum, DebugShort}

\* Every log of 1 .. max lines drawn from the catalog
LogsOf(catalog, max) ==
    UNION {{JoinLines(ls) : ls \in [1..n -> catalog]} : n \in 1..max}

\* ------------------------------------------------------------------------
\* State
\* ------------------------------------------------------------------------
VARIABLES
    \* analyzeApexLog
    log,                 \* the argument of analyzeApexLog
    calls,               \* number of invocations started so far
    pc,                  \* "idle", "loop", "done" or "raised"
    lines,               \* log.split('\n')
    i,                   \* the loop counter
    startTime,
    endTime,
    limitMap,
    lastDebugLineIndex,
    analysis,            \* the accumulator
    errlog,              \* console.error calls of this invocation (line indices)
    trace,               \* history: how each visited line was treated
    results,             \* the values returned so far, one per finished call
    \* filterLogsForMethod
    fpc,                 \* "off", "start", "sized", "scan", "done" or "raised"
    debugLog,            \* the arguments
    className,
    methodName,
    setupMethodName,
    names,               \* safeClassName, safeMethodName, safeSetupMethodName
    logLines,            \* debugLog.split('\n')
    fi,                  \* the loop counter of the scan
    scan,                \* inSetupMethod, inTestMethod, the section lists, ...
    output               \* the returned text

avars == <<log, calls, pc, lines, i, startTime, endTime, limitMap,
           lastDebugLineIndex, analysis, errlog, trace, results>>

fvars == <<fpc, debugLog, className, methodName, setupMethodName, names,
           logLines, fi, scan, output>>

vars == <<avars, fvars>>

NoNames ==
    [safeClassName |-> <<>>, safeMethodName |-> <<>>,
     safeSetupMethodName |-> <<>>, setupMethodName |-> Undefined]

\* The locals of filterLogsForMethod before its loop
NewScan ==
    [inSetupMethod |-> FALSE, inTestMethod |-> FALSE,
     setupMethodSections |-> <<>>, testMethodSections |-> <<>>,
     currentSection |-> <<>>, lastCodeUnitStarted |-> <<>>]

\* filterLogsForMethod is not running
FilterOff ==
    /\ fpc = "off"
    /\ debugLog = Undefined
    /\ className = Undefined
    /\ methodName = Undefined
    /\ setupMethodName = Undefined
    /\ names = NoNames
    /\ logLines = <<>>
    /\ fi = 0
    /\ scan = NewScan
    /\ output = <<>>

InitOn(logs) ==
    /\ log \in logs
    /\ calls = 0
    /\ pc = "idle"
    /\ lines = <<>>
    /\ i = 0
    /\ startTime = 0
    /\ endTime = 0
    /\ limitMap = <<>>
    /\ lastDebugLineIndex = -1
    /\ analysis = initializeAnalysis
    /\ errlog = <<>>
    /\ trace = <<>>
    /\ results = <<>>
    /\ FilterOff

Init == InitOn(LogsOf(LogLines, MaxLines))

\* The locals analyzeApexLog declares before its loop.  old holds the values
\* an earlier invocation left behind: none of them is carried over.
NewLocals_stale(old) ==
    [analysis |-> initializeAnalysis, limitMap |-> <<>>,
     startTime |-> old.startTime, endTime |-> 0, lastDebugLineIndex |-> -1]

NewLocals(old) ==
    [analysis |-> initializeAnalysis, limitMap |-> <<>>,
     startTime |-> 0, endTime |-> 0, lastDebugLineIndex |-> -1]

\* analyzeApexLog, up to the loop: every local is created afresh
Invoke ==
    /\ UNCHANGED fvars
    /\ pc \in {"idle", "done"}
    /\ calls < MaxCalls
    /\ calls' = calls + 1
    /\ LET new == NewLocals([analysis |-> analysis, limitMap |-> limitMap,
                             startTime |-> startTime, endTime |-> endTime,
                             lastDebugLineIndex |-> lastDebugLineIndex])
       IN /\ analysis' = new.analysis
          /\ limitMap' = new.limitMap
          /\ startTime' = new.startTime
          /\ endTime' = new.endTime
          /\ lastDebugLineIndex' = new.lastDebugLineIndex
    /\ lines' = SplitLines(log)
    /\ i' = 0
    /\ pc' = "loop"
    /\ errlog' = <<>>
    /\ trace' = <<>>
    /\ UNCHANGED <<log, results>>

InLoop == pc = "loop" /\ i < Len(lines)

Locals ==
    [analysis |-> analysis, limitMap |-> limitMap, startTime |-> startTime,
     endTime |-> endTime, lastDebugLineIndex |-> lastDebugLineIndex,
     i |-> i, thrown |-> FALSE, logged |-> FALSE]

Visit(how) == trace' = Append(trace, [idx |-> i, how |-> how])

\* if (!line.trim()) continue;
SkipBlankLine ==
    /\ UNCHANGED fvars
    /\ InLoop
    /\ Trim(At(lines, i)) = <<>>
    /\ i' = i + 1
    /\ Visit("blank")
    /\ UNCHANGED <<log, calls, pc, lines, startTime, endTime, limitMap,
                   lastDebugLineIndex, analysis, errlog, results>>

\* if (this.isPartOfPreviousDebugLine(...)) { processContinuedDebugLine; continue; }
ContinuedDebugLine ==
    /\ UNCHANGED fvars
    /\ InLoop
    /\ Trim(At(lines, i)) # <<>>
    /\ isPartOfPreviousDebugLine(lastDebugLineIndex, At(lines, i))
    /\ analysis' = processContinuedDebugLine(analysis, At(lines, i))
    /\ i' = i + 1
    /\ Visit("continued")
    /\ UNCHANGED <<log, calls, pc, lines, startTime, endTime, limitMap,
                   lastDebugLineIndex, errlog, results>>

IsEventLine ==
    /\ InLoop
    /\ Trim(At(lines, i)) # <<>>
    /\ ~isPartOfPreviousDebugLine(lastDebugLineIndex, At(lines, i))

\* if (parts.length < 2) continue;
ShortLine ==
    /\ UNCHANGED fvars
    /\ IsEventLine
    /\ Len(SplitPipe(At(lines, i))) < 2
    /\ i' = i + 1
    /\ Visit("short")
    /\ UNCHANGED <<log, calls, pc, lines, startTime, endTime, limitMap,
                   lastDebugLineIndex, analysis, errlog, results>>

\* after an error record was stored the loop goes on behind the lines
\* without a time stamp that follow
Continue_pastStack(o) ==
    /\ analysis' = o.analysis
    /\ limitMap' = o.limitMap
    /\ startTime' = o.startTime
    /\ endTime' = o.endTime
    /\ lastDebugLineIndex' = o.lastDebugLineIndex
    /\ i' = IF Len(o.analysis.errors) > Len(analysis.errors)
            THEN AbsorbStop(lines, o.i + 1)
            ELSE o.i + 1
    /\ errlog' = IF o.logged THEN Append(errlog, i) ELSE errlog
    /\ pc' = "loop"
    /\ UNCHANGED <<log, calls, lines, results>>

\* The state after one pass through the loop body that ended as o tells
Continue(o) ==
    /\ analysis' = o.analysis
    /\ limitMap' = o.limitMap
    /\ startTime' = o.startTime
    /\ endTime' = o.endTime
    /\ lastDebugLineIndex' = o.lastDebugLineIndex
    /\ i' = o.i + 1
    /\ errlog' = IF o.logged THEN Append(errlog, i) ELSE errlog
    /\ pc' = "loop"
    /\ UNCHANGED <<log, calls, lines, results>>

\* An error that leaves analyzeApexLog
Raise ==
    /\ pc' = "raised"
    /\ UNCHANGED <<log, calls, lines, i, startTime, endTime, limitMap,
                   lastDebugLineIndex, analysis, errlog, results>>

\* A line with a time stamp and a tag whose branch runs to its end
DispatchLine ==
    /\ UNCHANGED fvars
    /\ IsEventLine
    /\ Len(SplitPipe(At(lines, i))) >= 2
    /\ LET o == DispatchEvent(Locals, lines, i) IN
           /\ ~o.thrown
           /\ Continue(o)
           /\ Visit(RuleOf(At(SplitPipe(At(lines, i)), 1)))

\* A line whose branch throws: the catch clause logs it and the loop goes on
LineFault ==
    /\ UNCHANGED fvars
    /\ IsEventLine
    /\ Len(SplitPipe(At(lines, i))) >= 2
    /\ LET o == DispatchEvent(Locals, lines, i) IN
           /\ o.thrown
           /\ LET c == CatchLineError(o) IN
                  IF c.thrown THEN Raise ELSE Continue(c)
           /\ Visit("fault")

\* return this.finalizeAnalysis(analysis, limitMap);
Finalize ==
    /\ UNCHANGED fvars
    /\ pc = "loop"
    /\ i >= Len(lines)
    /\ analysis' = finalizeAnalysis(analysis, limitMap)
    /\ results' = Append(results, analysis')
    /\ pc' = "done"
    /\ UNCHANGED <<log, calls, lines, i, startTime, endTime, limitMap,
                   lastDebugLineIndex, errlog, trace>>

\* Logs of limit lines.  A per-namespace line carries limit fields from field
\* 2 on, a cumulative line from field 3 on (field 2 is its namespace).
NsLine ==
    Ev(Clock(12), "LIMIT_USAGE_FOR_NS",
       F(<<LimitTok("Queries", 60, 100)>>) \o F(<<Sp, LimitTok("Rows", 0, 0)>>))
NsNumLine == Ev(Num(101300), "LIMIT_USAGE_FOR_NS", F(<<LimitTok("Queries", 70, 100)>>))
CumLow ==
    Ev(Clock(13), "CUMULATIVE_LIMIT_USAGE",
       F(<<LimitTok("Heap", 9, 10)>>) \o F(<<LimitTok("Queries", 10, 100)>>))
CumHigh ==
    Ev(Clock(14), "CUMULATIVE_LIMIT_USAGE",
       F(<<>>) \o F(<<LimitTok("Queries", 55, 100)>>) \o F(<<LimitTok("Dml", 50, 100)>>))
CumZero ==
    Ev(Clock(15), "CUMULATIVE_LIMIT_USAGE",
       F(<<Word("(default)")>>) \o F(<<LimitTok("Rows", 3, 0)>>)
           \o F(<<LimitTok("Dml", 51, 100)>>))
CumEnd == Ev(Clock(16), "CUMULATIVE_LIMIT_USAGE_END", <<>>)
NsTie == Ev(Clock(12), "LIMIT_USAGE_FOR_NS", F(<<LimitTok("Cpu", 1, 2)>>))

LimitLines ==
    {EmptyLine, TextLine, DebugShort, NsLine, NsNumLine, CumLow, CumHigh, CumZero,
     CumEnd, NsTie}

InitLimits == InitOn(LogsOf(LimitLines, MaxLimitLines))

Next ==
    \/ Invoke
    \/ SkipBlankLine
    \/ ContinuedDebugLine
    \/ ShortLine
    \/ DispatchLine
    \/ LineFault
    \/ Finalize

Spec == Init /\ [][Next]_vars

\* Logs for the dispatcher: time stamps before and after a second start
\* line, a time stamp that is no number, a tag no rule knows, a profiling
\* line, and debug lines with and without their fields
StartLate == Ev(Clock(13), "EXECUTION_STARTED", <<>>)
SoqlLate == Ev(Clock(14), "SOQL_EXECUTE_BEGIN", F(<<LineRef(3)>>) \o F(<<Word("SELECT")>>))
BadSoql ==
    Ev(Word("abc"), "SOQL_EXECUTE_BEGIN", F(<<LineRef(3)>>) \o F(<<Word("SELECT")>>))
DebugClock ==
    Ev(Clock(13), "USER_DEBUG",
       F(<<LineRef(8)>>) \o F(<<Word("DEBUG")>>) \o F(<<Word("a")>>))
UnknownLine == Ev(Clock(13), "VARIABLE_SCOPE_BEGIN", F(<<LineRef(2)>>))
ProfilingLine == Ev(Clock(13), "CUMULATIVE_PROFILING_BEGIN", <<>>)

DispatchLines ==
    {EmptyLine, TextLine, StartClock, StartLate, StartNum, SoqlNum, SoqlLate,
     BadSoql, DebugShort, DebugClock, UnknownLine, ProfilingLine}

InitDispatch == InitOn(LogsOf(DispatchLines, MaxDispatchLines))

SpecDispatch == InitDispatch /\ [][Next]_vars

\* Logs with one line for every rule of the dispatcher, and a line whose tag
\* holds the texts of two rules
FinishClock == Ev(Clock(13), "EXECUTION_FINISHED", <<>>)
HeapLine == Ev(Clock(13), "HEAP_ALLOCATE", F(<<LineRef(5)>>) \o F(<<Bytes(64)>>))
ExceptionLine ==
    Ev(Clock(13), "EXCEPTION_THROWN",
       F(<<LineRef(9)>>) \o F(<<Word("System.NullPointerException"), Sp, LineOnly(9)>>))
SysEntry == Ev(Clock(13), "SYSTEM_METHOD_ENTRY", F(<<LineRef(5)>>) \o F(<<Word("System.debug")>>))
SysExit == Ev(Clock(13), "SYSTEM_METHOD_EXIT", F(<<LineRef(5)>>) \o F(<<Word("System.debug")>>))
CoverageLine == Ev(Clock(13), "CODE_COVERAGE", F(<<Word("ClsA"), Sp, Percent(80)>>))
ModeLine == Ev(Clock(13), "SYSTEM_MODE_ENTER", F(<<Word("false")>>))
CtorLine == Ev(Clock(13), "CONSTRUCTOR_ENTRY", F(<<LineRef(1)>>) \o F(<<Word("ClsA")>>))
MethodLine == Ev(Clock(13), "METHOD_ENTRY", F(<<LineRef(1)>>) \o F(<<Word("ClsA.run")>>))
SoqlEndLine == Ev(Clock(13), "SOQL_EXECUTE_END", F(<<LineRef(3)>>) \o F(<<Duration(7)>>))
DmlEndLine == Ev(Clock(13), "DML_END", F(<<LineRef(4)>>) \o F(<<Duration(5)>>))
MixedTagLine ==
    Ev(Clock(13), "USER_DEBUG_SOQL_EXECUTE_BEGIN",
       F(<<LineRef(3)>>) \o F(<<Word("DEBUG")>>) \o F(<<Word("a")>>))

RuleLines ==
    {EmptyLine, TextLine, DebugShort, StartClock, FinishClock, SoqlClock, DmlClock,
     DebugClock, HeapLine, ExceptionLine, SysEntry, SysExit, NsLine, CumHigh,
     CumEnd, ProfilingLine, CoverageLine, ModeLine, CtorLine, MethodLine,
     SoqlEndLine, DmlEndLine, MixedTagLine, UnknownLine}

InitRules == InitOn(LogsOf(RuleLines, MaxRuleLines))

SpecRules == InitRules /\ [][Next]_vars

SpecLimits == InitLimits /\ [][Next]_vars

\* Logs for the debug statements: debug lines with their fields (one with an
\* escape in its text) and without them, lines without a time stamp that
\* hold a blank, a text and "DEBUG|" followed by an escape, and a
\* time-stamped line of a tag no rule knows
DebugLate ==
    Ev(Clock(14), "USER_DEBUG",
       F(<<LineRef(9)>>) \o F(<<Word("DEBUG")>>) \o F(<<Word("b"), EscN, Word("c")>>))
EscLine == <<Word("DEBUG"), Pipe, Word("x"), EscN, Word("y")>>

DebugStatementLines ==
    {EmptyLine, TextLine, EscLine, DebugShort, DebugClock, DebugLate, UnknownLine}

InitDebug == InitOn(LogsOf(DebugStatementLines, MaxDebugLines))

SpecDebug == InitDebug /\ [][Next]_vars

\* Logs for the stack trace of an error: an exception line followed by up to
\* MaxStackLines lines of a stack trace padded with white space, one of them
\* at most replaced by a line of white space, by a line in the form of an
\* event header (a bare clock time, the delimiter, an upper-case tag) or by
\* an event line whose time stamp has fractions; and short logs of the lines
\* the loop treats in its other ways
StackText == <<Sp, Word("Class.ClsA.run"), Sp>>
HeaderLine ==
    Ev(Hms(13), "SOQL_EXECUTE_BEGIN", F(<<LineRef(3)>>) \o F(<<Word("SELECT")>>))

StackBody(n, p, special) == [k \in 1..n |-> IF k = p THEN special ELSE StackText]

StackLogs ==
    {JoinLines(<<ExceptionLine>> \o StackBody(n, 0, StackText)) : n \in 0..MaxStackLines}
        \cup UNION {{JoinLines(<<ExceptionLine>> \o StackBody(n, p, s)) :
                        p \in 1..n, s \in {SpaceLine, HeaderLine, SoqlClock}} :
                    n \in 1..MaxStackLines}
        \cup LogsOf({EmptyLine, TextLine, DebugShort, DebugClock, ExceptionLine}, MaxLines)

InitStack == InitOn(StackLogs)

SpecStack == InitStack /\ [][Next]_vars

\* Logs for the code coverage: coverage lines that carry a percentage, a
\* ratio (one of them 0/0), a list of uncovered lines (with an entry that is
\* no number), all three or none of them, among lines of other kinds
CovPercent == Ev(Clock(13), "CODE_COVERAGE", F(<<Word("ClsA"), Sp, Percent(80)>>))
CovRatio == Ev(Clock(13), "CODE_COVERAGE", F(<<Word("ClsA"), Sp, Ratio(7, 9)>>))
CovZero == Ev(Clock(13), "CODE_COVERAGE", F(<<Word("ClsA"), Sp, Ratio(0, 0)>>))
CovUncovered ==
    Ev(Clock(13), "CODE_COVERAGE", F(<<Word("ClsA"), Sp, NotCovered(<<3, NaN, 5>>)>>))
CovAll ==
    Ev(Clock(13), "CODE_COVERAGE",
       F(<<Word("ClsA"), Sp, Percent(50), Sp, Ratio(1, 2)>>) \o F(<<NotCovered(<<4>>)>>))
CovNone == Ev(Clock(13), "CODE_COVERAGE", F(<<Word("ClsA")>>))

CoverageLogLines ==
    {EmptyLine, TextLine, DebugShort, DebugClock, CovPercent, CovRatio, CovZero,
     CovUncovered, CovAll, CovNone}

InitCoverage == InitOn(LogsOf(CoverageLogLines, MaxCoverageLines))

SpecCoverage == InitCoverage /\ [][Next]_vars

\* Logs for the heap size: heap lines with a larger and a smaller Bytes value
\* and without one, and a line without a time stamp that holds one
HeapBig == Ev(Clock(13), "HEAP_ALLOCATE", F(<<LineRef(6)>>) \o F(<<Bytes(128)>>))
HeapSmall == Ev(Clock(13), "HEAP_ALLOCATE", F(<<LineRef(7)>>) \o F(<<Bytes(32)>>))
HeapNone == Ev(Clock(13), "HEAP_ALLOCATE", F(<<LineRef(7)>>))
BytesText == <<Word("more"), Sp, Bytes(256)>>

HeapLogLines ==
    {EmptyLine, TextLine, BytesText, DebugShort, DebugClock, HeapLine, HeapBig,
     HeapSmall, HeapNone}

InitHeap == InitOn(LogsOf(HeapLogLines, MaxHeapLines))

SpecHeap == InitHeap /\ [][Next]_vars

\* ------------------------------------------------------------------------
\* filterLogsForMethod as a state machine
\* ------------------------------------------------------------------------
AnalyzerOff ==
    /\ log = <<>>
    /\ calls = 0
    /\ pc = "off"
    /\ lines = <<>>
    /\ i = 0
    /\ startTime = 0
    /\ endTime = 0
    /\ limitMap = <<>>
    /\ lastDebugLineIndex = -1
    /\ analysis = initializeAnalysis
    /\ errlog = <<>>
    /\ trace = <<>>
    /\ results = <<>>

ClsA == <<Word("ClsA")>>
testFoo == <<Word("testFoo")>>
setupData == <<Word("setupData")>>

Unit(tag, cls, name) == Ev(Clock(12), tag, F(Qualified(cls, name)))

SetupStart == Unit("CODE_UNIT_STARTED", ClsA, setupData)
SetupEnd == Unit("CODE_UNIT_FINISHED", ClsA, setupData)
TestStart == Unit("CODE_UNIT_STARTED", ClsA, testFoo)
TestEnd == Unit("CODE_UNIT_FINISHED", ClsA, testFoo)
\* another test method of the class whose name starts with the target's name
LongStart == Unit("CODE_UNIT_STARTED", ClsA, testFoo \o <<Word("Bar")>>)
LongEnd == Unit("CODE_UNIT_FINISHED", ClsA, testFoo \o <<Word("Bar")>>)
OtherStart == Unit("CODE_UNIT_STARTED", <<Word("ClsB")>>, <<Word("other")>>)
OtherEnd == Unit("CODE_UNIT_FINISHED", <<Word("ClsB")>>, <<Word("other")>>)
SetupBody == Ev(Clock(12), "USER_DEBUG", F(<<Word("in setup")>>))
TestBody == Ev(Clock(12), "USER_DEBUG", F(<<Word("in test")>>))
LongBody == Ev(Clock(12), "USER_DEBUG", F(<<Word("in testFooBar")>>))
OtherBody == Ev(Clock(12), "USER_DEBUG", F(<<Word("in other")>>))
\* a line that names the test method without being a unit marker
RefLine == Ev(Clock(12), "METHOD_ENTRY", F(Qualified(ClsA, testFoo)))

\* Logs are built from blocks: whole code units and single lines
LogBlocks ==
    {<<SetupStart, SetupBody, SetupEnd>>,
     <<TestStart, TestBody, TestEnd>>,
     <<LongStart, LongBody, LongEnd>>,
     <<OtherStart, OtherBody, OtherEnd>>,
     <<SetupStart>>, <<SetupEnd>>, <<TestStart>>, <<TestEnd>>,
     <<RefLine>>, <<OtherBody>>}

RECURSIVE Flatten(_)
Flatten(bs) == IF bs = <<>> THEN <<>> ELSE Head(bs) \o Flatten(Tail(bs))

BlockLogs ==
    UNION {{JoinLines(Flatten(bs)) : bs \in [1..n -> LogBlocks]} : n \in 1..MaxBlocks}

TestUnitText == JoinLines(<<TestStart, TestBody, TestEnd>>)

FilterLogs ==
    {LogText(t, Len(t), 0) : t \in BlockLogs}
    \cup {Undefined,
          LogText(<<>>, 0, 0),
          LogText(<<Word("No logs found")>>, 13, 0),
          LogText(TestUnitText, MAX_LOG_SIZE, 0),
          LogText(TestUnitText, MAX_LOG_SIZE + 1, 0),
          LogText(TestUnitText, Len(TestUnitText), MAX_LINES),
          LogText(TestUnitText, Len(TestUnitText), MAX_LINES - 3)}

FilterArgs ==
    {<<Str(ClsA), Str(testFoo), Str(setupData)>>,
     <<Str(<<Punct("$")>> \o ClsA), Str(testFoo), Undefined>>,
     <<Str(ClsA), Str(testFoo), Str(<<Punct("-")>>)>>,
     <<NotAString, Str(testFoo), Undefined>>,
     <<Str(ClsA), NotAString, Str(setupData)>>,
     <<Str(ClsA), Str(testFoo), NotAString>>}

InitFilter ==
    /\ AnalyzerOff
    /\ fpc = "start"
    /\ debugLog \in FilterLogs
    /\ \E args \in FilterArgs :
           /\ className = args[1]
           /\ methodName = args[2]
           /\ setupMethodName = args[3]
    /\ names = NoNames
    /\ logLines = <<>>
    /\ fi = 0
    /\ scan = NewScan
    /\ output = <<>>

Return(text) ==
    /\ output' = text
    /\ fpc' = "done"

\* if (!debugLog || debugLog === 'No logs found') return ...
FilterNoLogs ==
    /\ fpc = "start"
    /\ NoLogs(debugLog)
    /\ Return(NoLogsAdvisory)
    /\ UNCHANGED <<avars, debugLog, className, methodName, setupMethodName,
                   names, logLines, fi, scan>>

\* if (typeof className !== 'string' || ...) return ...
FilterInvalidInputs ==
    /\ fpc = "start"
    /\ ~NoLogs(debugLog)
    /\ InvalidInputs(className, methodName, setupMethodName)
    /\ Return(InvalidInputsAdvisory)
    /\ UNCHANGED <<avars, debugLog, className, methodName, setupMethodName,
                   names, logLines, fi, scan>>

\* The three replace calls; one on a value that is no string throws
FilterSanitize ==
    /\ fpc = "start"
    /\ ~NoLogs(debugLog)
    /\ ~InvalidInputs(className, methodName, setupMethodName)
    /\ IF \/ SanitizeThrows(className)
          \/ SanitizeThrows(methodName)
          \/ (setupMethodName.type # "undefined" /\ SanitizeThrows(setupMethodName))
       THEN /\ fpc' = "raised"
            /\ UNCHANGED names
       ELSE /\ fpc' = "sized"
            /\ names' = [safeClassName |-> SanitizeText(className.text),
                         safeMethodName |-> SanitizeText(methodName.text),
                         safeSetupMethodName |->
                             IF Truthy(setupMethodName)
                             THEN SanitizeText(setupMethodName.text)
                             ELSE <<>>,
                         setupMethodName |-> setupMethodName]
    /\ UNCHANGED <<avars, debugLog, className, methodName, setupMethodName,
                   logLines, fi, scan, output>>

\* debugLog.split('\n').length
LineCount(d) == Len(SplitLines(d.text)) + d.extraLines

TooLarge_atCap(d) == d.length >= MAX_LOG_SIZE \/ LineCount(d) >= MAX_LINES

\* if (debugLog.length > MAX_LOG_SIZE) return ...;
\* if (logLines.length > MAX_LINES) return ...;
TooLarge(d) == d.length > MAX_LOG_SIZE \/ LineCount(d) > MAX_LINES

FilterTooLarge ==
    /\ fpc = "sized"
    /\ TooLarge(debugLog)
    /\ Return(TooLargeAdvisory)
    /\ UNCHANGED <<avars, debugLog, className, methodName, setupMethodName,
                   names, logLines, fi, scan>>

\* The declarations in front of the loop
FilterBegin ==
    /\ fpc = "sized"
    /\ ~TooLarge(debugLog)
    /\ logLines' = SplitLines(debugLog.text)
    /\ scan' = NewScan
    /\ fi' = 0
    /\ fpc' = "scan"
    /\ UNCHANGED <<avars, debugLog, className, methodName, setupMethodName,
                   names, output>>

Scanning == fpc = "scan" /\ fi < Len(logLines)

\* One pass through the loop body; every branch ends the pass
ScanStep ==
    /\ scan' = ScanLine(names, scan, At(logLines, fi))
    /\ fi' = fi + 1
    /\ UNCHANGED <<avars, fpc, debugLog, className, methodName, setupMethodName,
                   names, logLines, output>>

ScanSetupStart == Scanning /\ IsSetupStart(names, At(logLines, fi)) /\ ScanStep

ScanTestStart == Scanning /\ IsTestStart(names, At(logLines, fi)) /\ ScanStep

ScanSetupEnd == Scanning /\ IsSetupEnd(names, scan, At(logLines, fi)) /\ ScanStep

ScanTestEnd == Scanning /\ IsTestEnd(names, scan, At(logLines, fi)) /\ ScanStep

ScanOtherLine ==
    /\ Scanning
    /\ ~IsStart(names, At(logLines, fi))
    /\ ~IsSetupEnd(names, scan, At(logLines, fi))
    /\ ~IsTestEnd(names, scan, At(logLines, fi))
    /\ ScanStep

\* The passes of the loop over the empty lines at the end of the log that
\* logLines does not spell out: an empty line holds no marker, so each pass
\* ends in the last branch of the loop body
BufferEmptyTail(st, n) ==
    IF st.inSetupMethod \/ st.inTestMethod
    THEN [st EXCEPT !.currentSection = @ \o [k \in 1..n |-> <<>>]]
    ELSE st

FilterAssemble ==
    /\ fpc = "scan"
    /\ fi >= Len(logLines)
    /\ Return(AssembleOutput(names, BufferEmptyTail(scan, debugLog.extraLines),
                             logLines))
    /\ UNCHANGED <<avars, debugLog, className, methodName, setupMethodName,
                   names, logLines, fi, scan>>

NextFilter ==
    \/ FilterNoLogs
    \/ FilterInvalidInputs
    \/ FilterSanitize
    \/ FilterTooLarge
    \/ FilterBegin
    \/ ScanSetupStart
    \/ ScanTestStart
    \/ ScanSetupEnd
    \/ ScanTestEnd
    \/ ScanOtherLine
    \/ FilterAssemble

SpecFilter == InitFilter /\ [][NextFilter]_vars

\* ========================================================================
\* Properties
\* ========================================================================
\* The trace entries of kind how, in order
Visits(how) == SelectSeq(trace, LAMBDA v : v.how = how)

\* C1: analyzeApexLog never raises to its caller; an error inside the
\* processing of one line is caught (and logged), nothing but the debug
\* cursor has changed, and the loop goes on with the next line.
C1_NeverRaises ==
    [][/\ pc' # "raised"
       /\ (pc = "loop" /\ errlog' # errlog
              => /\ pc' = "loop"
                 /\ i' = i + 1
                 /\ analysis' = analysis
                 /\ limitMap' = limitMap)
       /\ (pc = "loop" /\ i >= Len(lines) => pc' = "done" /\ Len(results') = calls)
      ]_vars

\* C1 witness: a call that met a faulting line has returned its result
C1_Witness == pc = "done" /\ errlog # <<>> /\ Len(results) = calls

\* C3: the forward pass terminates.  Every pass through the loop strictly
\* increases the loop counter, which never passes the end of the lines (so
\* the index the user-debug handler returns lies between the index it was
\* called with and the last line); no line is visited twice; the only step
\* at the end of the lines is the return.
C3_ForwardPass ==
    [][pc = "loop" =>
          /\ \/ pc' = "loop" /\ i < Len(lines) /\ i < i' /\ i' <= Len(lines)
             \/ pc' = "done" /\ i >= Len(lines)
          /\ \A k \in 1..Len(trace) :
                 trace' # trace => trace[k].idx < trace'[Len(trace')].idx
      ]_vars

\* C3 witness: a user-debug line absorbed the lines up to the end of the log
\* and the pass has ended
C3_Witness ==
    /\ pc = "done"
    /\ trace # <<>>
    /\ trace[Len(trace)].how = "USER_DEBUG"
    /\ trace[Len(trace)].idx + 2 < Len(lines)

\* C4: two invocations on the same input return structurally identical
\* results.
C4_Idempotent ==
    \A k, l \in 1..Len(results) : results[k] = results[l]

\* C4 witness: the second invocation has returned, and an execution-start
\* line in the input moved the time base during each of them
C4_Witness ==
    /\ Len(results) = 2
    /\ startTime # 0
    /\ Len(results[2].timeline) > 1

\* The lines of the input whose event tag (field 1) contains tag
TagLines(tag) ==
    {k \in 0..(Len(lines) - 1) :
        /\ Len(SplitPipe(At(lines, k))) >= 2
        /\ Includes(At(SplitPipe(At(lines, k)), 1), tag)}

\* C5: for a log with N SOQL-begin lines and M DML-begin lines, whatever
\* lines surround them, the returned summary has numSoqlQueries = N,
\* numDmlStatements = M and numDatabaseCalls = N + M.
C5_Counts ==
    pc = "done" =>
        LET N == Cardinality(TagLines("SOQL_EXECUTE_BEGIN"))
            M == Cardinality(TagLines("DML_BEGIN"))
        IN /\ analysis.summary.numSoqlQueries = N
           /\ analysis.summary.numDmlStatements = M
           /\ analysis.summary.numDatabaseCalls = N + M

\* The time stamp a line starts with, in units
TimestampOf(line) ==
    IF line[1].k = "num" THEN line[1].n
    ELSE IF line[1].k \in {"clock", "hms"} THEN line[1].n * 1000 * UnitsPerMs
    ELSE NaN

\* The time stamp of the last execution-started line among the first n
\* visits of the trace, 0 when there is none
LastStartTime(n) ==
    LET S == {k \in 1..n : trace[k].how = "EXECUTION_STARTED"} IN
    IF S = {} THEN 0
    ELSE TimestampOf(At(lines, trace[CHOOSE k \in S : \A l \in S : l <= k].idx))

\* ms is d (in units) rounded to the nearest millisecond, halves going up
IsNearestMs(ms, d) ==
    /\ 2 * UnitsPerMs * ms - UnitsPerMs <= 2 * d
    /\ 2 * d < 2 * UnitsPerMs * ms + UnitsPerMs

\* C6: when an execution-finished line is dispatched, totalExecutionTimeMs
\* becomes the rounded difference between its time stamp and the time stamp
\* of the most recently dispatched execution-started line (start 10.0 and
\* finish 10.25 give 250); totalExecutionTimeMs and summary.totalTimeMs are
\* equal in every state and in every returned result.
C6_TotalTime ==
    /\ analysis.totalExecutionTimeMs = analysis.summary.totalTimeMs
    /\ \A k \in 1..Len(results) :
           results[k].totalExecutionTimeMs = results[k].summary.totalTimeMs
    /\ (trace # <<>> /\ trace[Len(trace)].how = "EXECUTION_FINISHED" /\ pc = "loop"
          => IsNearestMs(analysis.totalExecutionTimeMs,
                         TimestampOf(At(lines, trace[Len(trace)].idx))
                             - LastStartTime(Len(trace) - 1)))
    /\ (pc = "done" /\ lines = <<StartNum, FinishNum>>
          => /\ analysis.totalExecutionTimeMs = 250
             /\ analysis.summary.totalTimeMs = 250)

\* C6 witness: a finish line at 10.2507 after a start line at 10.0 gave 251
C6_Witness ==
    /\ pc = "done"
    /\ Len(trace) >= 2
    /\ trace[Len(trace)].how = "EXECUTION_FINISHED"
    /\ trace[Len(trace) - 1].how = "EXECUTION_STARTED"
    /\ analysis.totalExecutionTimeMs = 251

\* The case of C7 at the user-debug line with index k: the next line is not
\* blank, the one after it is blank, neither starts with a time stamp, and
\* the input ends or goes on with a time-stamped line
DebugWithTwoContinuations(k) ==
    /\ k + 2 < Len(lines)
    /\ Trim(At(lines, k + 1)) # <<>>
    /\ ~HasTimestampPrefix(At(lines, k + 1))
    /\ Trim(At(lines, k + 2)) = <<>>
    /\ (k + 3 < Len(lines) => HasTimestampPrefix(At(lines, k + 3)))

\* The debug text of the line DebugNum: "DEBUG|" removed, the escape
\* expanded, the white space at the end trimmed
DebugNumText == <<Word("a"), NL, Word("b")>>

\* What C7 says of the state right after the user-debug line was handled,
\* with last the text the blank line is said to contribute
DebugStatementIs(last(_)) ==
    /\ \A v \in 1..Len(trace) :
           trace[v].how = "USER_DEBUG" /\ DebugWithTwoContinuations(trace[v].idx)
             => \A w \in 1..Len(trace) :
                    trace[w].idx \notin {trace[v].idx + 1, trace[v].idx + 2}
    /\ (/\ trace # <<>>
        /\ pc = "loop"
        /\ trace[Len(trace)].how = "USER_DEBUG"
        /\ DebugWithTwoContinuations(trace[Len(trace)].idx)
        /\ At(lines, trace[Len(trace)].idx) = DebugNum)
         => LET k == trace[Len(trace)].idx IN
            /\ i = k + 3
            /\ Len(analysis.debugLines) = Len(Visits("USER_DEBUG"))
            /\ analysis.debugLines[Len(analysis.debugLines)].message
                   = DebugNumText \o <<NL>> \o At(lines, k + 1) \o <<NL>>
                         \o last(At(lines, k + 2))

EmptyText(line) == <<>>
SameText(line) == line

\* C7 as stated: a user-debug line followed by one non-blank and one blank
\* line without time stamps gives one debug statement whose message is the
\* debug text, a newline, the continuation text, a newline and an empty
\* string; neither following line is dispatched.
C7_AsStated == DebugStatementIs(EmptyText)

\* C7 amended: ... a newline and the text of the blank line as it stands
\* (the empty string only when the blank line is empty).
C7_BlankKept == DebugStatementIs(SameText)

\* C7 witness: the debug line absorbed a text line and a line of white space
C7_Witness ==
    /\ pc = "done"
    /\ lines = <<DebugNum, TextLine, SpaceLine>>
    /\ Len(analysis.debugLines) = 1

\* The limit samples of one line: the first "<name>: <used> of <total>" of
\* each field from index from on, in field order
RECURSIVE SamplesIn(_, _)
SamplesIn(parts, from) ==
    IF from >= Len(parts) THEN <<>>
    ELSE LET hits == SelectSeq(At(parts, from), LAMBDA t : t.k = "limit") IN
         (IF hits = <<>> THEN <<>>
          ELSE <<[name |-> hits[1].s, used |-> hits[1].n, total |-> hits[1].m,
                  line |-> 0, cumulative |-> FALSE]>>)
             \o SamplesIn(parts, from + 1)

\* The samples processed by the first n visits of the trace, in order: a
\* per-namespace line gives its fields from index 2 on, a cumulative line its
\* fields from index 3 on
RECURSIVE SamplesSeen(_)
SamplesSeen(n) ==
    IF n = 0 THEN <<>>
    ELSE LET v == trace[n]
             parts == SplitPipe(At(lines, v.idx))
             here == IF v.how = "LIMIT_USAGE_FOR_NS" THEN SamplesIn(parts, 2)
                     ELSE IF v.how = "CUMULATIVE_LIMIT_USAGE" THEN SamplesIn(parts, 3)
                     ELSE <<>>
         IN SamplesSeen(n - 1)
                \o [k \in 1..Len(here) |->
                       [here[k] EXCEPT !.line = v.idx,
                                       !.cumulative = (v.how = "CUMULATIVE_LIMIT_USAGE")]]

\* pct is 100 * used / total rounded to the nearest whole number
IsNearestPercent(pct, used, total) ==
    /\ 2 * total * pct - total <= 200 * used
    /\ 200 * used < 2 * total * pct + total

\* C8: the finalized limits list has exactly one entry per limit name seen
\* in a per-namespace or cumulative sample, with the used and total values
\* of the last sample processed for that name; Queries at 10/100 and then
\* at 55/100 gives one entry 55/100 at 55%.
C8_LastWriteWins ==
    pc = "done" =>
        LET S == SamplesSeen(Len(trace))
            L == analysis.limits
        IN /\ {L[k].name : k \in 1..Len(L)} = {S[k].name : k \in 1..Len(S)}
           /\ \A k, l \in 1..Len(L) : L[k].name = L[l].name => k = l
           /\ \A k \in 1..Len(L) :
                  \E n \in 1..Len(S) :
                      /\ S[n].name = L[k].name
                      /\ \A m \in (n + 1)..Len(S) : S[m].name # L[k].name
                      /\ L[k].used = S[n].used
                      /\ L[k].total = S[n].total
                      /\ (S[n].total > 0
                            => IsNearestPercent(L[k].percentage, S[n].used, S[n].total))
           /\ (lines = <<CumLow, CumHigh>>
                 => \E k \in 1..Len(L) :
                        L[k] = [name |-> "Queries", used |-> 55, total |-> 100,
                                percentage |-> 55])

\* C8 witness: Queries was sampled at 60/100 by a per-namespace line, then
\* at 55/100 and at 10/100 by cumulative lines
C8_Witness ==
    /\ pc = "done"
    /\ lines = <<NsLine, CumHigh, CumLow>>
    /\ \E k \in 1..Len(analysis.limits) :
           analysis.limits[k].name = "Queries" /\ analysis.limits[k].used = 10

\* The ratio used / total is greater than one half (a total of 0 with a
\* positive used gives an infinite ratio)
OverHalf(s) == IF s.total = 0 THEN s.used > 0 ELSE 2 * s.used > s.total

\* C9: the 'High Limit Usage' entries of the timeline are, in order, one per
\* processed cumulative sample whose own used/total ratio exceeds one half,
\* each carrying that sample's name, used and total and the time of its
\* line; a sample at exactly one half gives none, a per-namespace sample
\* gives none, and earlier or later samples of the same name change nothing.
C9_HighUsage ==
    LET H == SelectSeq(analysis.timeline, LAMBDA e : e.event = "High Limit Usage")
        S == SelectSeq(SamplesSeen(Len(trace)),
                       LAMBDA s : s.cumulative /\ OverHalf(s))
    IN pc \in {"loop", "done"} =>
          /\ Len(H) = Len(S)
          /\ \A k \in 1..Len(H) :
                 /\ H[k].details[1] = LimitTok(S[k].name, S[k].used, S[k].total)
                 /\ H[k].timeMs * UnitsPerMs = TimestampOf(At(lines, S[k].line))

\* C9 witness: Queries at 60/100 in a per-namespace line, at 10/100 and at
\* 55/100 in cumulative lines, and Dml at exactly 50/100, gave one entry
C9_Witness ==
    /\ pc = "done"
    /\ lines = <<NsLine, CumLow, CumHigh>>
    /\ Len(SelectSeq(analysis.timeline, LAMBDA e : e.event = "High Limit Usage")) = 1

\* The first line of a text
HeadLine(text) == SplitLines(text)[1]

\* C2: for every log text and every combination of class name, method name
\* and optional setup-method name, filterLogsForMethod never raises and
\* returns text: one of the three fixed advisory strings, the extracted
\* sections under their headers, or the fallback text under its header.
C2_ReturnsText ==
    /\ fpc # "raised"
    /\ (fpc = "done" =>
          /\ \A k \in 1..Len(output) : output[k].k \in {"word", "pipe", "nl", "clock"}
          /\ \/ output \in {NoLogsAdvisory, InvalidInputsAdvisory, TooLargeAdvisory}
             \/ HeadLine(output) \in {<<Word("==== TEST SETUP METHOD ====")>>,
                                       <<Word("==== TEST METHOD ====")>>}
             \/ HeadLine(output)[1] = Word("No specific method boundaries found for "))
    /\ (fpc = "done" /\ debugLog.type = "string" /\ debugLog.text # <<>>
           /\ debugLog.text # <<Word("No logs found")>>
           /\ "number" \in {className.type, methodName.type, setupMethodName.type}
          => output = InvalidInputsAdvisory)

\* C2 witness: a call with a setup-method name that is not a string returned
\* the advisory string for invalid inputs
C2_Witness ==
    /\ fpc = "done"
    /\ debugLog.type = "string"
    /\ className.type = "string"
    /\ methodName.type = "string"
    /\ setupMethodName.type = "number"
    /\ output = InvalidInputsAdvisory

\* The indices (1-based) of the lines of the scanned log equal to line
LinesEqual(line) == {k \in 1..Len(logLines) : logLines[k] = line}

\* The case of C10: the call names ClsA, testFoo and setupData, and the log
\* holds one setup unit and one test unit, each from its start marker to its
\* end marker, one after the other
BoundedUnits ==
    /\ className = Str(ClsA)
    /\ methodName = Str(testFoo)
    /\ setupMethodName = Str(setupData)
    /\ \E a, b, c, d \in 1..Len(logLines) :
           /\ LinesEqual(SetupStart) = {a}
           /\ LinesEqual(SetupEnd) = {b}
           /\ LinesEqual(TestStart) = {c}
           /\ LinesEqual(TestEnd) = {d}
           /\ a < b
           /\ c < d
           /\ (b < c \/ d < a)

\* The output C10 describes: the setup header and the lines of the setup
\* unit, an empty line, the test header and the lines of the test unit
BoundedOutput ==
    LET a == CHOOSE k \in LinesEqual(SetupStart) : TRUE
        b == CHOOSE k \in LinesEqual(SetupEnd) : TRUE
        c == CHOOSE k \in LinesEqual(TestStart) : TRUE
        d == CHOOSE k \in LinesEqual(TestEnd) : TRUE
    IN <<<<Word("==== TEST SETUP METHOD ====")>>,
         <<Word("ClsA"), Word("."), Word("setupData")>>,
         <<>>>>
       \o SubSeq(logLines, a, b)
       \o <<<<>>>>
       \o <<<<Word("==== TEST METHOD ====")>>,
            <<Word("ClsA"), Word("."), Word("testFoo")>>,
            <<>>>>
       \o SubSeq(logLines, c, d)

\* C10: for a log in which the setup unit and the test unit are each fully
\* bounded by their own start and end markers, the output is the setup header
\* block before the test header block, the setup block holding exactly the
\* lines from the setup start marker to the setup end marker, the test block
\* exactly the lines from the test start marker to the test end marker; the
\* lines of any other code unit appear in neither block.
C10_BoundedBlocks ==
    fpc = "done" /\ BoundedUnits => SplitLines(output) = BoundedOutput

\* The number of lines a log splits into: one more than its newlines
NewlineCount(d) ==
    Len(SelectSeq(d.text, LAMBDA t : t.k = "nl")) + 1 + d.extraLines

\* The call got past the checks of the log and of the names
Admitted ==
    /\ debugLog.type = "string"
    /\ debugLog.text # <<>>
    /\ debugLog.text # <<Word("No logs found")>>
    /\ className.type = "string"
    /\ methodName.type = "string"
    /\ setupMethodName.type \in {"string", "undefined"}

\* C11: a log longer than 1 MiB characters, or of more than 50000 lines,
\* returns the 'too large' advisory string and no line is scanned, so the
\* lines of the test unit in it are not in the output; a log at or below
\* both caps is scanned to its end and its test unit is in the output.
C11_SizeCaps ==
    fpc = "done" /\ Admitted =>
        IF debugLog.length > 1048576 \/ NewlineCount(debugLog) > 50000
        THEN /\ output = TooLargeAdvisory
             /\ fi = 0
             /\ logLines = <<>>
             /\ scan = NewScan
             /\ ~ContainsText(output, TestBody)
        ELSE /\ output # TooLargeAdvisory
             /\ fi = Len(logLines)
             /\ logLines # <<>>
             /\ (debugLog.text = TestUnitText /\ methodName = Str(testFoo)
                    /\ className.text # <<>> /\ Head(className.text).k # "punct"
                   => ContainsText(output, TestBody))

\* C11 witness: a log of 50003 lines holding the test unit was rejected
C11_Witness ==
    /\ fpc = "done"
    /\ Admitted
    /\ debugLog.text = TestUnitText
    /\ debugLog.length <= 1048576
    /\ NewlineCount(debugLog) > 50000
    /\ output = TooLargeAdvisory

\* A log of exactly 50000 lines holding the test unit was scanned
C11_AtCapScanned ==
    /\ fpc = "done"
    /\ Admitted
    /\ NewlineCount(debugLog) = 50000
    /\ ContainsText(output, TestBody)

\* C12: during the scan at most one of inSetupMethod and inTestMethod is
\* true; a start marker that opens one section while the other is open
\* first moves the buffered lines to the list of the section that was open
\* and then leaves only the flag of the newly opened section set.
C12_OneSectionOpen ==
    [][/\ ~(scan.inSetupMethod /\ scan.inTestMethod)
       /\ ~(scan'.inSetupMethod /\ scan'.inTestMethod)
       /\ (Scanning /\ scan.inTestMethod /\ IsSetupStart(names, At(logLines, fi))
             => /\ scan'.testMethodSections
                     = scan.testMethodSections \o scan.currentSection
                /\ scan'.setupMethodSections = scan.setupMethodSections
                /\ scan'.currentSection = <<At(logLines, fi)>>
                /\ scan'.inSetupMethod
                /\ ~scan'.inTestMethod)
       /\ (Scanning /\ scan.inSetupMethod /\ IsTestStart(names, At(logLines, fi))
             => /\ scan'.setupMethodSections
                     = scan.setupMethodSections \o scan.currentSection
                /\ scan'.testMethodSections = scan.testMethodSections
                /\ scan'.currentSection = <<At(logLines, fi)>>
                /\ scan'.inTestMethod
                /\ ~scan'.inSetupMethod)
      ]_vars

\* C12 witness: the start marker of the setup unit came while the test
\* section was open with its start marker buffered
C12_Witness ==
    /\ fpc = "scan"
    /\ fi = 2
    /\ logLines[1] = TestStart
    /\ logLines[2] = SetupStart
    /\ scan.inSetupMethod
    /\ ~scan.inTestMethod
    /\ scan.testMethodSections = <<TestStart>>
    /\ scan.currentSection = <<SetupStart>>

\* The scan of an admitted log ran to its end and the result was returned
Scanned == fpc = "done" /\ Admitted /\ output # TooLargeAdvisory

\* A section captured a line: a list of a section is not empty, or lines are
\* still buffered for the section that is open at the end of the log
Captured ==
    \/ scan.setupMethodSections # <<>>
    \/ scan.testMethodSections # <<>>
    \/ (scan.currentSection # <<>> /\ (scan.inSetupMethod \/ scan.inTestMethod))

\* The lines of the log that contain <class>.<method> or, when a setup name
\* is given, <class>.<setup>, in input order
ReferenceLines ==
    LET cls == names.safeClassName
        dot == <<Word(".")>>
    IN SelectSeq(logLines,
                 LAMBDA l : \/ ContainsText(l, cls \o dot \o names.safeMethodName)
                            \/ /\ names.safeSetupMethodName # <<>>
                               /\ ContainsText(l, cls \o dot \o names.safeSetupMethodName))

\* The output starts with the two explanatory lines and an empty line
UnderFallbackHeader ==
    LET out == SplitLines(output) IN
    /\ Len(out) >= 3
    /\ out[1] = <<Word("No specific method boundaries found for ")>>
                   \o names.safeClassName \o <<Word(".")>> \o names.safeMethodName
    /\ out[2] = <<Word("Showing any log entries containing references to this method:")>>
    /\ out[3] = <<>>

\* C13: the fallback text is returned if and only if neither section
\* captured a line; then every line of the log that contains <class>.<method>
\* or, with a setup name given, <class>.<setup> follows the explanatory
\* header as it stands, in input order.
C13_Fallback ==
    Scanned =>
        /\ UnderFallbackHeader <=> ~Captured
        /\ (~Captured /\ ReferenceLines # <<>>
              => SplitLines(output)
                    = SubSeq(SplitLines(output), 1, 3) \o ReferenceLines)

\* C13 witness: an end marker of the setup unit without its start marker and
\* a line naming the test method were emitted by the fallback
C13_Witness ==
    /\ Scanned
    /\ logLines = <<SetupEnd, RefLine>>
    /\ names.safeSetupMethodName = setupData
    /\ UnderFallbackHeader
    /\ Len(SplitLines(output)) = 5

\* The 'no references found' message
NoReferencesMessage ==
    <<Word("No references to ")>> \o names.safeClassName \o <<Word(".")>>
        \o names.safeMethodName \o <<Word(" found in the logs.")>>

\* C14 as stated: when neither section captured a line and no line contains
\* either qualified name, the output is the 'no references found' message
\* and nothing else.
C14_AsStated ==
    Scanned /\ ~Captured /\ ReferenceLines = <<>> => output = NoReferencesMessage

\* C14 amended: ... the output is the two explanatory header lines, an empty
\* line and the 'no references found' message, and nothing else.
C14_MessageUnderHeader ==
    Scanned /\ ~Captured /\ ReferenceLines = <<>>
        => /\ UnderFallbackHeader
           /\ SplitLines(output) = SubSeq(SplitLines(output), 1, 3)
                                       \o <<NoReferencesMessage>>

\* C14 witness: a log of one line of another code unit
C14_Witness ==
    /\ Scanned
    /\ logLines = <<OtherBody>>
    /\ ~Captured
    /\ ContainsText(output, NoReferencesMessage)

\* The log is missing, empty or the literal 'No logs found'
LogMissing ==
    \/ debugLog.type = "undefined"
    \/ debugLog.type = "string" /\ debugLog.length = 0
    \/ debugLog.type = "string" /\ debugLog.text = <<Word("No logs found")>>
           /\ debugLog.extraLines = 0

\* A name that must be a string is none, or the setup name is present and no
\* string
NameInvalid ==
    \/ className.type # "string"
    \/ methodName.type # "string"
    \/ setupMethodName.type \notin {"undefined", "string"}

\* Nothing of the log was split or scanned
NothingScanned == fi = 0 /\ logLines = <<>> /\ scan = NewScan

\* C15: a missing or empty log, or the literal 'No logs found', returns the
\* 'no logs available' advisory string; otherwise a class name or method
\* name that is no string, or a setup-method name that is present and no
\* string, returns the 'invalid inputs' advisory string; both before any
\* scanning. With string names and the setup-method name absent or a string
\* neither advisory string is returned.
C15_RejectsInvalid ==
    fpc = "done" =>
        IF LogMissing
        THEN output = <<Word("No logs available for this method.")>> /\ NothingScanned
        ELSE IF NameInvalid
        THEN output = <<Word("Invalid inputs for log filtering.")>> /\ NothingScanned
        ELSE output \notin {<<Word("No logs available for this method.")>>,
                            <<Word("Invalid inputs for log filtering.")>>}

\* C15 witness: the literal 'No logs found' with a class name that is no
\* string returned the 'no logs available' advisory string
C15_Witness ==
    /\ fpc = "done"
    /\ debugLog.type = "string"
    /\ debugLog.text = <<Word("No logs found")>>
    /\ className.type = "number"
    /\ output = NoLogsAdvisory

\* A call without a setup-method name was accepted and scanned
C15_AbsentSetupAccepted ==
    /\ fpc = "done"
    /\ setupMethodName.type = "undefined"
    /\ ~LogMissing
    /\ ~NameInvalid
    /\ fi = Len(logLines)
    /\ fi > 0

\* The step handles the line at the cursor as an event: it is neither blank,
\* nor a continuation, nor a line of one field
HandlesEvent ==
    /\ pc = "loop"
    /\ trace' # trace
    /\ trace'[Len(trace')].how \notin {"blank", "continued", "short"}

\* The time-stamp field of the line at the cursor is no number
TimestampNotNumber == At(lines, i)[1].k \notin {"num", "clock", "hms"}

\* C16: a line whose processing faults because of malformed numeric or field
\* content, such as a time-stamp field that is no number, is skipped: it
\* changes no field of the analysis and of the limit map, and the loop goes
\* on with the next line.
C16_FaultSkipped ==
    [][HandlesEvent /\ (errlog' # errlog \/ TimestampNotNumber)
         => /\ analysis' = analysis
            /\ limitMap' = limitMap
            /\ pc' = "loop"
            /\ i' = i + 1
      ]_vars

\* The offset of an event at time stamp ts from the baseline base
IsOffset(ms, ts, base) ==
    IF IsNaN(ts) \/ IsNaN(base) THEN IsNaN(ms) ELSE IsNearestMs(ms, ts - base)

\* C17: every timeline entry has the offset round((time stamp of its line -
\* baseline) x 1000), the baseline being the time stamp of the execution-
\* started line dispatched last before that line, or 0 without one; the
\* entry of an execution-started line itself has offset 0; no later line
\* changes the offset of an entry.
C17_Baseline ==
    [][pc = "loop" /\ pc' = "loop" =>
          LET old == analysis.timeline
              new == analysis'.timeline
          IN /\ Len(new) >= Len(old)
             /\ \A k \in 1..Len(old) : new[k].timeMs = old[k].timeMs
             /\ \A k \in (Len(old) + 1)..Len(new) :
                    IF new[k].event = "Execution Started"
                    THEN new[k].timeMs = 0
                    ELSE IsOffset(new[k].timeMs, TimestampOf(At(lines, i)),
                                  LastStartTime(Len(trace)))
      ]_vars

\* C17 witness: a query whose time stamp reads 14 after start lines whose
\* time stamps read 12 and 13 has the offset 1000
C17_Witness ==
    /\ pc = "done"
    /\ lines = <<StartClock, StartLate, SoqlLate>>
    /\ Len(analysis.timeline) = 3
    /\ analysis.timeline[3].timeMs = 1000

\* The timeline events the handler of a rule can record
EventsOf(rule) ==
    CASE rule = "EXECUTION_STARTED" -> {"Execution Started"}
      [] rule = "EXECUTION_FINISHED" -> {"Execution Finished"}
      [] rule = "SOQL_EXECUTE_BEGIN" -> {"SOQL Query"}
      [] rule = "DML_BEGIN" -> {"DML Operation"}
      [] rule = "USER_DEBUG" -> {"Debug Log"}
      [] rule = "EXCEPTION" -> {"Error"}
      [] rule = "SYSTEM_METHOD_ENTRY" -> {"Method Entry"}
      [] rule = "SYSTEM_METHOD_EXIT" -> {"Method Exit"}
      [] rule = "CUMULATIVE_LIMIT_USAGE" -> {"High Limit Usage"}
      [] rule = "SYSTEM_MODE" -> {"System Mode Enter", "System Mode Exit"}
      [] rule = "CONSTRUCTOR" -> {"Constructor Entry", "Constructor Exit"}
      [] rule = "CUSTOM_METHOD" -> {"Method Entry", "Method Exit"}
      [] rule = "SOQL_EXECUTE_END" -> {"SOQL Query Completed"}
      [] rule = "DML_END" -> {"DML Operation Completed"}
      [] OTHER -> {}

\* The rules whose handler records exactly one timeline entry
RecordsOne ==
    {"EXECUTION_STARTED", "EXECUTION_FINISHED", "SOQL_EXECUTE_BEGIN", "DML_BEGIN",
     "EXCEPTION", "SYSTEM_METHOD_ENTRY", "SYSTEM_METHOD_EXIT", "SYSTEM_MODE",
     "CONSTRUCTOR", "CUSTOM_METHOD"}

\* The first rule, in the declared order, whose text the tag of the line at
\* the cursor contains
RuleAtCursor == FirstDeclared(At(SplitPipe(At(lines, i)), 1))

\* C18: for every dispatched line the effects are those of one handler at
\* most, the handler of the first rule in the declared order whose text the
\* tag contains: the timeline gains only entries of that handler, and a
\* counter, list or local of another handler does not change, also when the
\* tag contains the text of a later rule.
C18_FirstRuleOnly ==
    [][HandlesEvent =>
          LET r == RuleAtCursor
              a == analysis
              b == analysis'
              faulted == errlog' # errlog
              n == Len(b.timeline) - Len(a.timeline)
              Plus(c) == IF c THEN 1 ELSE 0
          IN /\ n >= 0
             /\ SubSeq(b.timeline, 1, Len(a.timeline)) = a.timeline
             /\ \A k \in (Len(a.timeline) + 1)..Len(b.timeline) :
                    b.timeline[k].event \in EventsOf(r)
             /\ (r \in RecordsOne => n = 1)
             /\ (r = "USER_DEBUG" => n = Plus(~faulted))
             /\ (r # "CUMULATIVE_LIMIT_USAGE" => n <= 1)
             /\ b.summary.numSoqlQueries
                   = a.summary.numSoqlQueries + Plus(r = "SOQL_EXECUTE_BEGIN")
             /\ b.summary.numDmlStatements
                   = a.summary.numDmlStatements + Plus(r = "DML_BEGIN")
             /\ Len(b.debugLines)
                   = Len(a.debugLines) + Plus(r = "USER_DEBUG" /\ ~faulted)
             /\ Len(b.errors) = Len(a.errors) + Plus(r = "EXCEPTION")
             /\ (r # "EXECUTION_STARTED" => startTime' = startTime)
             /\ (r # "EXECUTION_FINISHED"
                   => /\ endTime' = endTime
                      /\ b.totalExecutionTimeMs = a.totalExecutionTimeMs)
             /\ (r # "HEAP_ALLOCATE" => b.summary.heapSize = a.summary.heapSize)
             /\ (r \notin {"LIMIT_USAGE_FOR_NS", "CUMULATIVE_LIMIT_USAGE"}
                   => limitMap' = limitMap)
             /\ (r # "CUMULATIVE_LIMIT_USAGE" => b.governorLimits = a.governorLimits)
             /\ (r # "CODE_COVERAGE"
                   => /\ b.codeCoverage = a.codeCoverage
                      /\ b.hasCoverageInfo = a.hasCoverageInfo)
             /\ (r = "CODE_COVERAGE" => b.hasCoverageInfo)
             /\ (r \notin {"SOQL_EXECUTE_END", "DML_END"}
                   => b.summary.dbTimeMs = a.summary.dbTimeMs)
             /\ (r = "NONE" => b = a)
      ]_vars

\* C18 witness: a line with the tag USER_DEBUG_SOQL_EXECUTE_BEGIN was counted
\* as a query and gave no debug statement
C18_Witness ==
    /\ pc = "done"
    /\ lines = <<MixedTagLine>>
    /\ analysis.summary.numSoqlQueries = 1
    /\ analysis.debugLines = <<>>

\* C19: a time-stamped line whose tag matches no rule, and a cumulative-
\* profiling line, leave every field of the analysis and the limit map as
\* they were; the loop goes on with the next line.
C19_NoEffect ==
    [][HandlesEvent /\ RuleAtCursor \in {"NONE", "CUMULATIVE_PROFILING"}
         => /\ analysis' = analysis
            /\ limitMap' = limitMap
            /\ startTime' = startTime
            /\ endTime' = endTime
            /\ errlog' = errlog
            /\ pc' = "loop"
            /\ i' = i + 1
      ]_vars

\* C19 witness: a query was counted after a line of an unknown tag and a
\* profiling line
C19_Witness ==
    /\ pc = "done"
    /\ lines = <<UnknownLine, ProfilingLine, SoqlLate>>
    /\ Len(trace) = 3
    /\ analysis.summary.numSoqlQueries = 1
    /\ Len(analysis.timeline) = 1

\* The line starts with digits:digits:digits
StartsWithClock(line) == line # <<>> /\ line[1].k \in {"clock", "hms"}

\* C20: a line that is not blank is taken for a continuation exactly when
\* the debug cursor is open and the line does not start with
\* digits:digits:digits; the cursor is opened only by the dispatch of a
\* user-debug line, which sets it to the index of that line, and it is
\* closed by the dispatch of every other line a rule matches.
C20_Cursor ==
    [][pc = "loop" /\ i < Len(lines) =>
          /\ (Trim(At(lines, i)) # <<>>
                => (trace'[Len(trace')].how = "continued"
                      <=> lastDebugLineIndex >= 0 /\ ~StartsWithClock(At(lines, i))))
          /\ (lastDebugLineIndex' # lastDebugLineIndex /\ lastDebugLineIndex' >= 0
                => /\ HandlesEvent
                   /\ RuleAtCursor = "USER_DEBUG"
                   /\ lastDebugLineIndex' = i)
          /\ (HandlesEvent /\ RuleAtCursor = "USER_DEBUG" => lastDebugLineIndex' = i)
          /\ (HandlesEvent /\ RuleAtCursor \notin {"USER_DEBUG", "NONE"}
                => lastDebugLineIndex' = -1)
      ]_vars

\* C20 witness: the debug line at index 0 left the cursor open over a line
\* of an unknown tag, and the text line after it was taken for a continuation
C20_Witness ==
    /\ pc = "done"
    /\ lines = <<DebugClock, UnknownLine, TextLine>>
    /\ trace[3].how = "continued"
    /\ lastDebugLineIndex = 0


\* The index of the first line after the line k that starts with
\* digits:digits:digits, the number of lines when there is none
NextClockLine(k) ==
    LET S == {t \in (k + 1)..(Len(lines) - 1) : StartsWithClock(At(lines, t))} IN
    IF S = {} THEN Len(lines) ELSE CHOOSE t \in S : \A u \in S : t <= u

\* The lines from .. to - 1 as they stand, a newline before each
RECURSIVE RawRun(_, _)
RawRun(from, to) ==
    IF from >= to THEN <<>>
    ELSE RawRun(from, to - 1) \o <<NL>> \o At(lines, to - 1)

\* text ends with tail
EndsWith(text, tail) ==
    /\ Len(text) >= Len(tail)
    /\ SubSeq(text, Len(text) - Len(tail) + 1, Len(text)) = tail

\* The step dispatches the line at the cursor to the user-debug handler, and
\* the handler runs to its end
RecordsDebug ==
    /\ HandlesEvent
    /\ RuleAtCursor = "USER_DEBUG"
    /\ errlog' = errlog

\* C21: the user-debug handler absorbs every line that directly follows its
\* line, blank lines included, up to the first line that starts with
\* digits:digits:digits or the end of the input, and the loop goes on at that
\* line; an absorbed line is added once to the new statement, to no other
\* statement, and is never visited by the loop.
C21_Absorbs ==
    [][/\ (RecordsDebug =>
             LET t == NextClockLine(i)
                 n == Len(analysis.debugLines)
             IN /\ i' = t
                /\ Len(analysis'.debugLines) = n + 1
                /\ SubSeq(analysis'.debugLines, 1, n) = analysis.debugLines
                /\ EndsWith(analysis'.debugLines[n + 1].message, RawRun(i + 1, t)))
       /\ \A v, w \in 1..Len(trace) :
              trace[v].how = "USER_DEBUG"
                => ~(/\ trace[v].idx < trace[w].idx
                     /\ trace[w].idx < NextClockLine(trace[v].idx))
      ]_vars

\* C21 witness: a debug line absorbed a text line and an empty line, and the
\* loop went on at the time-stamped line after them
C21_Witness ==
    /\ pc = "done"
    /\ lines = <<DebugLate, TextLine, EmptyLine, UnknownLine>>
    /\ trace = <<[idx |-> 0, how |-> "USER_DEBUG"], [idx |-> 3, how |-> "NONE"]>>
    /\ analysis.debugLines[1].message
          = <<Word("b"), NL, Word("c"), NL, Word("more"), NL>>

\* The index of the user-debug line that opened the k-th debug statement
DebugLineOf(k) == Visits("USER_DEBUG")[k].idx

\* The loop has visited a line after the line k that starts with
\* digits:digits:digits
LaterClockLineVisited(k) ==
    \E w \in 1..Len(trace) :
        trace[w].idx > k /\ StartsWithClock(At(lines, trace[w].idx))

\* C22: once the loop has processed a time-stamped line that comes after the
\* user-debug line of a debug statement, the message of that statement never
\* changes for the rest of the pass.
C22_Immutable ==
    [][pc = "loop" /\ pc' = "loop" =>
          \A k \in 1..Len(analysis.debugLines) :
              LaterClockLineVisited(DebugLineOf(k))
                => analysis'.debugLines[k].message = analysis.debugLines[k].message
      ]_vars

\* The step takes the line at the cursor for a continuation
ContinuesDebug ==
    /\ pc = "loop"
    /\ trace' # trace
    /\ trace'[Len(trace')].how = "continued"

\* C23: the continuation branch of the loop is reached only for a line that
\* a blank line skipped by the loop separates from the open debug capture,
\* and never for a line that comes directly after a time-stamped line.
C23_ContinuationReach ==
    [][ContinuesDebug =>
          /\ \E w \in 1..Len(trace) :
                 trace[w].how = "blank" /\ trace[w].idx > lastDebugLineIndex
          /\ ~StartsWithClock(At(lines, i - 1))
      ]_vars

\* The debug statements dl are those of the user-debug lines the visits tr
\* recorded, in the order of these lines in the log
InSourceOrder(dl, tr) ==
    LET V == SelectSeq(tr, LAMBDA v : v.how = "USER_DEBUG") IN
    /\ Len(dl) = Len(V)
    /\ \A k \in 1..Len(V) :
           LET parts == SplitPipe(At(lines, V[k].idx)) IN
           /\ dl[k].timestamp = At(parts, 0)
           /\ dl[k].lineNumber = At(parts, 2)[1].n
    /\ \A k, l \in 1..Len(V) : k < l => V[k].idx < V[l].idx

\* C24: the debug statements stand in the list in the order of their
\* user-debug lines in the log; a continuation adds a newline and text to the
\* message of the last statement of the list, the one of the user-debug line
\* recorded last, and changes no other statement.
C24_AppendToLast ==
    [][pc = "loop" =>
          LET old == analysis.debugLines
              new == analysis'.debugLines
              n == Len(old)
          IN /\ InSourceOrder(old, trace)
             /\ InSourceOrder(new, trace')
             /\ (ContinuesDebug =>
                   /\ Len(new) = n
                   /\ \A k \in 1..(n - 1) : new[k] = old[k]
                   /\ (n > 0 =>
                         /\ new[n].timestamp = old[n].timestamp
                         /\ new[n].lineNumber = old[n].lineNumber
                         /\ Len(new[n].message) > Len(old[n].message)
                         /\ SubSeq(new[n].message, 1, Len(old[n].message) + 1)
                               = old[n].message \o <<NL>>)
                   /\ (n = 0 => analysis' = analysis))
      ]_vars

\* C24 witness: with two debug statements recorded, the text line after a
\* line of an unknown tag went to the second statement
C24_Witness ==
    /\ pc = "done"
    /\ lines = <<DebugClock, DebugLate, UnknownLine, TextLine>>
    /\ Len(analysis.debugLines) = 2
    /\ analysis.debugLines[1].message = <<Word("a")>>
    /\ analysis.debugLines[2].message = <<Word("b"), NL, Word("c"), NL, Word("more")>>

\* C25: in the message stored for a debug statement every escape sequence
\* backslash-n has become a real newline and a leading "DEBUG|" is gone,
\* over the whole message, the text of the absorbed lines included.
C25_Cleaned ==
    \A k \in 1..Len(analysis.debugLines) :
        LET m == analysis.debugLines[k].message IN
        /\ \A j \in 1..Len(m) : m[j] # EscN
        /\ ~(Len(m) >= 2 /\ m[1] = Word("DEBUG") /\ m[2] = Pipe)

\* The trimmed lines that are not blank among the lines from .. to, joined
\* by newlines
RECURSIVE JoinTrimmed(_, _)
JoinTrimmed(from, to) ==
    IF from > to THEN <<>>
    ELSE LET before == JoinTrimmed(from, to - 1)
             text == Trim(At(lines, to))
         IN IF text = <<>> THEN before
            ELSE before \o (IF before = <<>> THEN <<>> ELSE <<NL>>) \o text

\* The stack trace of an error at the line x when count lines are looked at:
\* the lines x + 1 .. x + count, up to the last line of the log and to the
\* line before the first event header among them
StackOf(x, count) ==
    LET last == IF x + count < Len(lines) THEN x + count ELSE Len(lines) - 1
        H == {j \in (x + 1)..last : IsEventHeader(At(lines, j))}
        stop == IF H = {} THEN last ELSE (CHOOSE j \in H : \A l \in H : j <= l) - 1
    IN JoinTrimmed(x + 1, stop)

\* Every error record holds the stack trace of count lines, and no stack
\* trace field when no line was collected
StackTraceIs(count) ==
    LET V == Visits("EXCEPTION") IN
    /\ Len(analysis.errors) = Len(V)
    /\ \A k \in 1..Len(V) :
           LET st == StackOf(V[k].idx, count) IN
           analysis.errors[k].stackTrace = (IF st = <<>> THEN <<>> ELSE <<st>>)

\* C26: for an exception or fatal-error line at index i the stack trace is
\* the newline-joined sequence of the trimmed non-blank lines among the 30
\* lines i + 1 .. i + 30, cut off at the first line that matches the
\* event-header pattern; no line beyond i + 30 is included, and the field is
\* absent when no line was collected.
C26_StackTrace == StackTraceIs(StackLookahead)

\* The timeline entries of a of the event ev, in order
EntriesOf(a, ev) == SelectSeq(a.timeline, LAMBDA e : e.event = ev)

\* In a there is one 'Error' entry for every error record, in the same order
\* and with its message, and one 'Debug Log' entry for every debug statement
RecordedTogether(a) ==
    /\ Len(a.errors) = Len(EntriesOf(a, "Error"))
    /\ \A k \in 1..Len(a.errors) :
           a.errors[k].message = EntriesOf(a, "Error")[k].details
    /\ Len(a.debugLines) = Len(EntriesOf(a, "Debug Log"))

\* C27: every dispatched exception or fatal-error line appends one error
\* record and one 'Error' timeline entry with the same message; in every
\* state the number of error records is the number of 'Error' entries and
\* the number of debug statements is the number of 'Debug Log' entries.
C27_RecordedTogether ==
    [][/\ RecordedTogether(analysis)
       /\ RecordedTogether(analysis')
       /\ \A k \in 1..Len(results') : RecordedTogether(results'[k])
       /\ (HandlesEvent /\ RuleAtCursor = "EXCEPTION" =>
             LET n == Len(analysis.errors)
                 t == Len(analysis.timeline)
             IN /\ Len(analysis'.errors) = n + 1
                /\ SubSeq(analysis'.errors, 1, n) = analysis.errors
                /\ Len(analysis'.timeline) = t + 1
                /\ SubSeq(analysis'.timeline, 1, t) = analysis.timeline
                /\ analysis'.timeline[t + 1].event = "Error"
                /\ analysis'.timeline[t + 1].details = analysis'.errors[n + 1].message)
      ]_vars

\* C27 witness: an exception line and a debug line gave one error record
\* with its 'Error' entry and one debug statement with its 'Debug Log' entry
C27_Witness ==
    /\ pc = "done"
    /\ lines = <<ExceptionLine, DebugClock>>
    /\ Len(analysis.errors) = 1
    /\ Len(analysis.debugLines) = 1
    /\ analysis.timeline[1].event = "Error"
    /\ analysis.timeline[1].details = analysis.errors[1].message
    /\ analysis.timeline[2].event = "Debug Log"

\* The line j was absorbed by a user-debug line that comes after the line x
AbsorbedAfter(x, j) ==
    \E w \in 1..Len(trace) :
        /\ trace[w].how = "USER_DEBUG"
        /\ x < trace[w].idx
        /\ trace[w].idx < j
        /\ j < NextClockLine(trace[w].idx)

\* C28: the lookahead of the exception handler does not move the loop
\* counter: after an exception line the loop goes on at the next line, every
\* later line, also one copied into the stack trace, is visited by the loop
\* (or absorbed by a later user-debug line) as without the exception, and the
\* exception handler closes the debug cursor.
C28_LookaheadOnly ==
    [][/\ (HandlesEvent /\ RuleAtCursor = "EXCEPTION" =>
             /\ i' = i + 1
             /\ lastDebugLineIndex' = -1
             /\ pc' = "loop")
       /\ (pc = "loop" /\ pc' = "done" =>
             \A v \in 1..Len(trace) :
                 trace[v].how = "EXCEPTION" =>
                     \A j \in (trace[v].idx + 1)..(Len(lines) - 1) :
                         \/ \E w \in 1..Len(trace) : trace[w].idx = j
                         \/ AbsorbedAfter(trace[v].idx, j))
      ]_vars

\* C28 witness: the query line after an exception line is part of the stack
\* trace and was counted as a query all the same
C28_Witness ==
    /\ pc = "done"
    /\ lines = <<ExceptionLine, StackText, SoqlClock>>
    /\ analysis.errors[1].stackTrace
          = <<<<Word("Class.ClsA.run"), NL>> \o SoqlClock>>
    /\ analysis.summary.numSoqlQueries = 1
    /\ trace[3] = [idx |-> 2, how |-> "SOQL_EXECUTE_BEGIN"]

\* new is the limit map old after the samples S were stored in their order:
\* a sampled name holds the values of its last sample, every other name of
\* old holds what it held, and there are no other names
StoredIn(old, new, S) ==
    LET Names(m) == {m[k].name : k \in 1..Len(m)} IN
    /\ Names(new) = Names(old) \cup Names(S)
    /\ \A k, l \in 1..Len(new) : new[k].name = new[l].name => k = l
    /\ \A k \in 1..Len(new) :
           IF new[k].name \in Names(S)
           THEN \E n \in 1..Len(S) :
                    /\ S[n].name = new[k].name
                    /\ \A m \in (n + 1)..Len(S) : S[m].name # new[k].name
                    /\ new[k].used = S[n].used
                    /\ new[k].total = S[n].total
           ELSE \E l \in 1..Len(old) : old[l] = new[k]

\* The samples S as entries of governorLimits
RawSamples(S) ==
    [k \in 1..Len(S) |-> [name |-> S[k].name, usage |-> S[k].used, total |-> S[k].total]]

\* C29: the per-namespace handler reads the limit fields from field 2 on and
\* changes the limit map only (timeline, governorLimits and every other
\* field of the analysis stay as they are); the cumulative handler reads
\* from field 3 on, passes over a limit in field 2, and appends one raw
\* sample to governorLimits for every matched field, also when the name was
\* sampled before, so governorLimits has as many entries as there were
\* matched cumulative fields.
C29_LimitFields ==
    [][/\ (HandlesEvent /\ RuleAtCursor = "LIMIT_USAGE_FOR_NS" =>
             /\ analysis' = analysis
             /\ StoredIn(limitMap, limitMap', SamplesIn(SplitPipe(At(lines, i)), 2)))
       /\ (HandlesEvent /\ RuleAtCursor = "CUMULATIVE_LIMIT_USAGE" =>
             LET S == SamplesIn(SplitPipe(At(lines, i)), 3) IN
             /\ analysis'.governorLimits = analysis.governorLimits \o RawSamples(S)
             /\ StoredIn(limitMap, limitMap', S))
       /\ (pc = "loop" =>
             Len(analysis.governorLimits)
                 = Len(SelectSeq(SamplesSeen(Len(trace)), LAMBDA s : s.cumulative)))
      ]_vars

\* C29 witness: the limit Heap in field 2 of a cumulative line was passed
\* over, and Queries, sampled by both cumulative lines and by the
\* per-namespace line, stands twice in governorLimits
C29_Witness ==
    /\ pc = "done"
    /\ lines = <<CumLow, NsLine, CumHigh>>
    /\ analysis.governorLimits
          = <<[name |-> "Queries", usage |-> 10, total |-> 100],
              [name |-> "Queries", usage |-> 55, total |-> 100],
              [name |-> "Dml", usage |-> 50, total |-> 100]>>
    /\ \A k \in 1..Len(analysis.limits) : analysis.limits[k].name # "Heap"

\* The place of the first sample of the limit name among the samples S
FirstSeen(S, name) ==
    CHOOSE n \in 1..Len(S) :
        /\ S[n].name = name
        /\ \A m \in 1..(n - 1) : S[m].name # name

\* C30: in the returned result the limits stand in non-increasing order of
\* percentage; the percentage of an entry is round(used / total x 100) when
\* its total is positive and 0 when its total is 0; entries of equal
\* percentage stand in the order in which their names were first seen.
C30_SortedLimits ==
    pc = "done" =>
        LET L == results[Len(results)].limits
            S == SamplesSeen(Len(trace))
        IN /\ \A k \in 1..(Len(L) - 1) : L[k].percentage >= L[k + 1].percentage
           /\ \A k \in 1..Len(L) :
                  IF L[k].total > 0
                  THEN IsNearestPercent(L[k].percentage, L[k].used, L[k].total)
                  ELSE L[k].percentage = 0
           /\ \A k, l \in 1..Len(L) :
                  k < l /\ L[k].percentage = L[l].percentage
                    => FirstSeen(S, L[k].name) < FirstSeen(S, L[l].name)

\* C30 witness: Cpu at 1 of 2 was seen before Queries at 55 of 100 and Dml
\* at 50 of 100; Queries stands first, Cpu before Dml
C30_Witness ==
    /\ pc = "done"
    /\ lines = <<NsTie, CumHigh>>
    /\ results[Len(results)].limits
          = <<[name |-> "Queries", used |-> 55, total |-> 100, percentage |-> 55],
              [name |-> "Cpu", used |-> 1, total |-> 2, percentage |-> 50],
              [name |-> "Dml", used |-> 50, total |-> 100, percentage |-> 50]>>

\* The step is the finalize step of analyzeApexLog
Finalizes == pc = "loop" /\ pc' = "done"

\* C31: the finalize step sets numDatabaseCalls to numSoqlQueries +
\* numDmlStatements and fills the limits list from the limit map, and
\* changes nothing else: timeline, debug statements, errors, governorLimits,
\* method calls, coverage, heap size, database time, the two counters and
\* the total execution time are returned as they stood after the last line.
C31_FinalizeFrame ==
    [][Finalizes =>
          LET a == analysis
              b == analysis'
          IN /\ b.summary.numDatabaseCalls
                    = a.summary.numSoqlQueries + a.summary.numDmlStatements
             /\ Len(b.limits) = Len(limitMap)
             /\ {b.limits[k].name : k \in 1..Len(b.limits)}
                    = {limitMap[k].name : k \in 1..Len(limitMap)}
             /\ b.timeline = a.timeline
             /\ b.debugLines = a.debugLines
             /\ b.errors = a.errors
             /\ b.governorLimits = a.governorLimits
             /\ b.methodCalls = a.methodCalls
             /\ b.codeCoverage = a.codeCoverage
             /\ b.hasCoverageInfo = a.hasCoverageInfo
             /\ b.totalExecutionTimeMs = a.totalExecutionTimeMs
             /\ b.summary.heapSize = a.summary.heapSize
             /\ b.summary.dbTimeMs = a.summary.dbTimeMs
             /\ b.summary.totalTimeMs = a.summary.totalTimeMs
             /\ b.summary.numSoqlQueries = a.summary.numSoqlQueries
             /\ b.summary.numDmlStatements = a.summary.numDmlStatements
             /\ results'[Len(results')] = b
      ]_vars

\* C31 witness: a result with one query, two raw limit samples and two
\* finalized limits
C31_Witness ==
    /\ pc = "done"
    /\ lines = <<CumHigh, SoqlClock>>
    /\ analysis.summary.numDatabaseCalls = 1
    /\ Len(analysis.governorLimits) = 2
    /\ Len(analysis.limits) = 2
    /\ Len(analysis.timeline) = 2

\* The step dispatches the line at the cursor to processCodeCoverage
CoverageStep ==
    /\ pc = "loop"
    /\ trace' # trace
    /\ trace'[Len(trace')].how = "CODE_COVERAGE"

\* What a line carries: a token of the kind, and the first such token
Carries(line, kind) == \E k \in 1..Len(line) : line[k].k = kind
Carried(line, kind) ==
    line[CHOOSE k \in 1..Len(line) :
             /\ line[k].k = kind
             /\ \A l \in 1..(k - 1) : line[l].k # kind]

\* The entries of a list of parsed line numbers that are numbers
Numbers(ns) == SelectSeq(ns, LAMBDA n : n # NaN)

\* pct is Math.round(covered / total * 100): the nearest whole percentage,
\* and for a total of 0 no number (0/0) or Infinity
IsRatioPercent(pct, covered, total) ==
    IF total = 0 THEN pct = (IF covered = 0 THEN NaN ELSE Infinity)
    ELSE IsNearestPercent(pct, covered, total)

\* C32: when no coverage summary exists, the first code-coverage line on
\* which an extraction succeeds creates it. The percentage is the one the
\* line carries, else the ratio covered/total as a rounded percentage (no
\* number for 0/0) when the line carries a ratio, else 0; the covered and
\* total counts are those of the ratio, else 0; the uncovered lines are the
\* numbers of the list, else empty. Without any of the three no summary is
\* created.
C32_CreatesSummary ==
    [][CoverageStep /\ analysis.codeCoverage = <<>> =>
          LET ln == At(lines, i)
              P == Carries(ln, "percent")
              R == Carries(ln, "ratio")
              U == Carries(ln, "notcovered")
              c == analysis'.codeCoverage
          IN IF ~(P \/ R \/ U) THEN c = <<>>
             ELSE /\ Len(c) = 1
                  /\ IF P THEN c[1].coveragePercentage = Carried(ln, "percent").n
                     ELSE IF R
                          THEN IsRatioPercent(c[1].coveragePercentage,
                                              Carried(ln, "ratio").n,
                                              Carried(ln, "ratio").m)
                          ELSE c[1].coveragePercentage = 0
                  /\ c[1].linesCovered = (IF R THEN Carried(ln, "ratio").n ELSE 0)
                  /\ c[1].linesTotal = (IF R THEN Carried(ln, "ratio").m ELSE 0)
                  /\ c[1].uncoveredLines
                         = (IF U THEN Numbers(Carried(ln, "notcovered").ns) ELSE <<>>)
      ]_vars

\* C32 witness: the summary created by the ratio 7/9 alone
C32_Witness ==
    /\ pc = "loop"
    /\ lines = <<CovRatio, CovNone>>
    /\ i = 1
    /\ analysis.codeCoverage
           = <<[coveragePercentage |-> 78, linesCovered |-> 7, linesTotal |-> 9,
                uncoveredLines |-> <<>>]>>

\* C32 as stated: a summary created by the ratio extraction has the
\* percentage 0 and no uncovered lines
C32_AsStated ==
    [][/\ CoverageStep
       /\ analysis.codeCoverage = <<>>
       /\ ~Carries(At(lines, i), "percent")
       /\ Carries(At(lines, i), "ratio")
       /\ ~Carries(At(lines, i), "notcovered")
       => /\ analysis'.codeCoverage[1].coveragePercentage = 0
          /\ analysis'.codeCoverage[1].uncoveredLines = <<>>
      ]_vars

\* C33: once a coverage summary exists it stays: a code-coverage line
\* replaces the percentage only by a percentage it carries, the covered and
\* total counts only by a ratio it carries and the uncovered lines only by a
\* list it carries, every other field keeps its value, and no other step of
\* the pass changes or removes the summary.
C33_OwnFieldsOnly ==
    [][pc = "loop" /\ analysis.codeCoverage # <<>> =>
          LET ln == At(lines, i)
              c == analysis.codeCoverage[1]
              d == analysis'.codeCoverage
          IN /\ Len(d) = 1
             /\ IF CoverageStep
                THEN /\ d[1].coveragePercentage
                            = (IF Carries(ln, "percent")
                               THEN Carried(ln, "percent").n
                               ELSE c.coveragePercentage)
                     /\ d[1].linesCovered
                            = (IF Carries(ln, "ratio")
                               THEN Carried(ln, "ratio").n ELSE c.linesCovered)
                     /\ d[1].linesTotal
                            = (IF Carries(ln, "ratio")
                               THEN Carried(ln, "ratio").m ELSE c.linesTotal)
                     /\ d[1].uncoveredLines
                            = (IF Carries(ln, "notcovered")
                               THEN Numbers(Carried(ln, "notcovered").ns)
                               ELSE c.uncoveredLines)
                ELSE d[1] = c
      ]_vars

\* C33 witness: a percentage alone has replaced the percentage of a summary
\* and left its counts and its uncovered lines
C33_Witness ==
    /\ pc = "loop"
    /\ lines = <<CovAll, CovPercent>>
    /\ i = 2
    /\ analysis.codeCoverage
           = <<[coveragePercentage |-> 80, linesCovered |-> 1, linesTotal |-> 2,
                uncoveredLines |-> <<4>>]>>

\* C34: every dispatched code-coverage line leaves the coverage flag true,
\* with or without a successful extraction; within a pass the flag never
\* goes back to false; and whenever a coverage summary exists the flag is
\* true.
C34_CoverageFlag ==
    [][/\ CoverageStep => analysis'.hasCoverageInfo
       /\ pc = "loop" /\ analysis.hasCoverageInfo => analysis'.hasCoverageInfo
       /\ analysis.codeCoverage # <<>> => analysis.hasCoverageInfo
       /\ analysis'.codeCoverage # <<>> => analysis'.hasCoverageInfo
      ]_vars

\* C34 witness: a result with the flag set and no summary, from a coverage
\* line on which no extraction succeeded
C34_Witness ==
    /\ pc = "done"
    /\ lines = <<CovNone, DebugClock>>
    /\ analysis.hasCoverageInfo
    /\ analysis.codeCoverage = <<>>

\* The Bytes values of the heap-allocate lines dispatched so far
HeapValues ==
    {Carried(At(lines, v.idx), "bytes").n :
        v \in {trace[k] : k \in {l \in 1..Len(trace) :
                   /\ trace[l].how = "HEAP_ALLOCATE"
                   /\ Carries(At(lines, trace[l].idx), "bytes")}}}

Largest(S) == IF S = {} THEN 0 ELSE CHOOSE n \in S : \A m \in S : m <= n

\* C40: summary.heapSize never decreases during a pass; a heap-allocate
\* line with a smaller value or without a Bytes value leaves it unchanged,
\* a step that is no dispatched heap-allocate line leaves it unchanged, and
\* the returned result holds the largest Bytes value among the dispatched
\* heap-allocate lines that carry one, 0 if there is none.
C40_PeakHeap ==
    [][/\ pc = "loop" =>
            /\ analysis'.summary.heapSize >= analysis.summary.heapSize
            /\ LET heapStep == /\ trace' # trace
                               /\ trace'[Len(trace')].how = "HEAP_ALLOCATE"
                   grows == /\ heapStep
                            /\ Carries(At(lines, i), "bytes")
                            /\ Carried(At(lines, i), "bytes").n
                                   > analysis.summary.heapSize
               IN analysis'.summary.heapSize
                      = (IF grows THEN Carried(At(lines, i), "bytes").n
                         ELSE analysis.summary.heapSize)
       /\ pc' = "done" => analysis'.summary.heapSize = Largest(HeapValues)'
      ]_vars

\* C40 witness: a result that keeps the largest of three values although a
\* smaller one and a line without a value came later
C40_Witness ==
    /\ pc = "done"
    /\ lines = <<HeapBig, HeapSmall, HeapNone>>
    /\ analysis.summary.heapSize = 128

\* A unit marker "<time>|<tag>|<qualified name>" and the name it carries
IsUnitMarker(line, tag) == Len(line) >= 5 /\ line[3] = Word(tag) /\ line[4] = Pipe
UnitNameOf(line) == SubSeq(line, 5, Len(line))

\* The qualified name of the section that is open
ActiveName ==
    Qualified(names.safeClassName,
              IF scan.inSetupMethod THEN names.safeSetupMethodName
              ELSE names.safeMethodName)

\* The scan after the end marker has closed the open section
ClosedBy(line) ==
    IF scan.inSetupMethod
    THEN [scan EXCEPT !.setupMethodSections = @ \o Append(scan.currentSection, line),
                      !.currentSection = <<>>,
                      !.inSetupMethod = FALSE]
    ELSE [scan EXCEPT !.testMethodSections = @ \o Append(scan.currentSection, line),
                      !.currentSection = <<>>,
                      !.inTestMethod = FALSE]

\* C35: a unit-end marker read while a section is open closes the section
\* exactly when the marker names the qualified name of that section: the
\* marker is appended to the buffer, the buffer is moved to the list of the
\* section and its flag is cleared; an end marker of any other unit is
\* buffered like an ordinary line and closes nothing, and with no section
\* open an end marker changes nothing.
C35_EndClosesNamed ==
    [][Scanning /\ IsUnitMarker(At(logLines, fi), "CODE_UNIT_FINISHED") =>
          LET line == At(logLines, fi) IN
          IF ~(scan.inSetupMethod \/ scan.inTestMethod) THEN scan' = scan
          ELSE IF UnitNameOf(line) = ActiveName THEN scan' = ClosedBy(line)
          ELSE scan' = [scan EXCEPT !.currentSection = Append(@, line)]
      ]_vars

\* Exactly one of the two section flags is set
OneFlag(st) == st.inSetupMethod # st.inTestMethod

\* C36: in every state of the scan the buffer holds lines only if exactly
\* one section flag is set, and a line read while neither flag is set is
\* not buffered and reaches no section list, unless it is the start marker
\* that opens a section, which then is the only line of the buffer.
C36_IgnoredOutside ==
    [][/\ scan.currentSection # <<>> => OneFlag(scan)
       /\ scan'.currentSection # <<>> => OneFlag(scan')
       /\ Scanning /\ ~scan.inSetupMethod /\ ~scan.inTestMethod =>
              /\ scan'.setupMethodSections = scan.setupMethodSections
              /\ scan'.testMethodSections = scan.testMethodSections
              /\ IF OneFlag(scan')
                 THEN /\ IsUnitMarker(At(logLines, fi), "CODE_UNIT_STARTED")
                      /\ scan'.currentSection = <<At(logLines, fi)>>
                 ELSE scan'.currentSection = <<>>
      ]_vars

\* C36 witness: a line of another unit was read before the test unit
\* started, and the buffer holds the start marker alone
C36_Witness ==
    /\ fpc = "scan"
    /\ fi = 2
    /\ logLines[1] = OtherBody
    /\ logLines[2] = TestStart
    /\ scan.currentSection = <<TestStart>>
    /\ scan.testMethodSections = <<>>
    /\ scan.setupMethodSections = <<>>

\* The step that ends the scan and assembles the output
Assembles == fpc = "scan" /\ fpc' = "done"

\* The lines buffered when the input ends: those in the buffer and the empty
\* lines that end the log
BufferedAtEnd == scan.currentSection \o [k \in 1..debugLog.extraLines |-> <<>>]

\* The header block of a section in the output
HeaderBlock(title, name) ==
    <<<<Word(title)>>, names.safeClassName \o <<Word(".")>> \o name, <<>>>>

\* C37: when the input ends while a section is open, the output holds under
\* the header of that section every line of the list of the section followed
\* by every line still buffered, in their order; no buffered line is lost.
C37_OpenAtEnd ==
    [][Assembles /\ scan.currentSection # <<>> =>
          LET out == SplitLines(output')
              setup == HeaderBlock("==== TEST SETUP METHOD ====",
                                   names.safeSetupMethodName)
                           \o scan.setupMethodSections \o BufferedAtEnd
              test == HeaderBlock("==== TEST METHOD ====", names.safeMethodName)
                          \o scan.testMethodSections \o BufferedAtEnd
          IN IF scan.inSetupMethod
             THEN /\ Len(out) >= Len(setup)
                  /\ SubSeq(out, 1, Len(setup)) = setup
             ELSE /\ scan.inTestMethod
                  /\ Len(out) >= Len(test)
                  /\ SubSeq(out, Len(out) - Len(test) + 1, Len(out)) = test
      ]_vars

\* C37 witness: the log ends inside the test unit, and the start marker and
\* the line after it stand under the header of the test method
C37_Witness ==
    /\ fpc = "done"
    /\ logLines = <<TestStart, OtherBody>>
    /\ scan.currentSection = <<TestStart, OtherBody>>
    /\ SplitLines(output)
           = <<<<Word("==== TEST METHOD ====")>>,
               <<Word("ClsA"), Word("."), Word("testFoo")>>,
               <<>>,
               TestStart, OtherBody>>

\* The step has opened a section with the line at the cursor as its first
\* buffered line
Opens(flag) ==
    /\ Scanning
    /\ scan'[flag]
    /\ scan'.currentSection = <<At(logLines, fi)>>

\* C38: a unit-start marker opens the setup section only when its qualified
\* name is <class>.<setupMethod> and the test section only when its
\* qualified name is <class>.<method>, also when one method name is a prefix
\* of another; the start marker of any other unit opens no section.
C38_StartOpensNamed ==
    [][Scanning /\ IsUnitMarker(At(logLines, fi), "CODE_UNIT_STARTED") =>
          LET name == UnitNameOf(At(logLines, fi))
              cls == names.safeClassName \o <<Word(".")>>
          IN /\ Opens("inSetupMethod") => name = cls \o names.safeSetupMethodName
             /\ Opens("inTestMethod") => name = cls \o names.safeMethodName
      ]_vars

\* The place of the header of the test block in the lines of the output (0
\* when there is none)
SetupTitle == <<Word("==== TEST SETUP METHOD ====")>>
TestTitle == <<Word("==== TEST METHOD ====")>>
TestTitleAt(out) ==
    LET S == {k \in 1..Len(out) : out[k] = TestTitle} IN
    IF S = {} THEN 0 ELSE CHOOSE k \in S : \A l \in S : k <= l

\* The output holds a section block
HasSections(out) == out[1] \in {SetupTitle, TestTitle}

\* The log lines emitted in the setup block and in the test block
SetupBlock(out) ==
    LET t == TestTitleAt(out) IN
    IF out[1] # SetupTitle THEN <<>>
    ELSE SubSeq(out, 4, IF t > 0 THEN t - 2 ELSE Len(out) - 1)
TestBlock(out) ==
    LET t == TestTitleAt(out) IN
    IF t = 0 THEN <<>> ELSE SubSeq(out, t + 3, Len(out))

\* The lines of the input: those spelled out and the empty lines at the end,
\* as many of them as a block of the output could hold
InputLines(out) ==
    LET n == IF debugLog.extraLines < Len(out) THEN debugLog.extraLines
             ELSE Len(out)
    IN logLines \o [k \in 1..n |-> <<>>]

\* s is l with some of its entries left out
RECURSIVE IsSubsequence(_, _)
IsSubsequence(s, l) ==
    IF s = <<>> THEN TRUE
    ELSE IF l = <<>> THEN FALSE
    ELSE IF Head(s) = Head(l) THEN IsSubsequence(Tail(s), Tail(l))
    ELSE IsSubsequence(s, Tail(l))

Occurrences(l, x) == Cardinality({k \in 1..Len(l) : l[k] = x})

\* C39: in the section output the lines of each block are input lines in
\* their input order, also when a unit occurs several times; no line is
\* emitted more often, in the two blocks together, than it occurs in the
\* input; and the output is the setup block (if it holds a line) followed by
\* the test block (if it holds a line), whatever the order of the units in
\* the log.
C39_SectionOutput ==
    fpc = "done" /\ Scanned =>
        LET out == SplitLines(output)
            S == SetupBlock(out)
            T == TestBlock(out)
            In == InputLines(out)
            cls == names.safeClassName \o <<Word(".")>>
        IN HasSections(out) =>
               /\ IsSubsequence(S, In)
               /\ IsSubsequence(T, In)
               /\ \A x \in {S[j] : j \in 1..Len(S)} \cup {T[j] : j \in 1..Len(T)} :
                      Occurrences(S, x) + Occurrences(T, x) <= Occurrences(In, x)
               /\ out = (IF S # <<>>
                         THEN <<SetupTitle, cls \o names.safeSetupMethodName, <<>>>>
                                  \o S \o <<<<>>>>
                         ELSE <<>>)
                        \o (IF T # <<>>
                            THEN <<TestTitle, cls \o names.safeMethodName, <<>>>> \o T
                            ELSE <<>>)

\* C39 witness: the test unit, the setup unit and the test unit again; the
\* setup block comes first and the test block holds both runs in their order
C39_Witness ==
    /\ fpc = "done"
    /\ logLines = <<TestStart, TestBody, TestEnd, SetupStart, SetupBody, SetupEnd,
                    TestStart, TestBody, TestEnd>>
    /\ names.safeSetupMethodName = setupData
    /\ SetupBlock(SplitLines(output)) = <<SetupStart, SetupBody, SetupEnd>>
    /\ TestBlock(SplitLines(output))
           = <<TestStart, TestBody, TestEnd, TestStart, TestBody, TestEnd>>

====
